---- MODULE Spec2Model ----
(***************************************************************************)
(* Investor Pipeline & Task Automation Engine of backend/server.py:        *)
(* the per-fund stage registry, the pipeline ledger (one entry per         *)
(* (fund, investor)), and the stage checklist generator.                   *)
(*                                                                         *)
(* The MongoDB collections are the state.  A collection is a set of        *)
(* documents; every document carries the "id" its model gives it: uuid4   *)
(* is modelled as a token no live document of the collection carries.      *)
(* The token of a pipeline entry is <<fund, investor, n>>, that of a task  *)
(* <<investor, stage, k, n>>, n counting up, so that find_one can return   *)
(* the oldest matching document.                                           *)
(* datetime.now() is the clock `now`, advanced by Tick.                    *)
(***************************************************************************)
EXTENDS Integers, Sequences, FiniteSets, TLC

(***************************************************************************)
(* Bounds of the model.                                                    *)
(***************************************************************************)
\* the clock runs 0..MaxClock
MaxClock == 1
\* kanban positions offered as input: 0..MaxPosition
MaxPosition == 1
\* user task edits/deletions per behaviour
MaxTaskEdits == 4
\* explicit stage creations/updates/deletions per behaviour
MaxStageEdits == 2
\* length of the fund_assignments list of one call
MaxFundAssignments == 2
\* investor assignment requests per behaviour
MaxRequests == 2
\* requests one concurrent caller sends, one after another
MaxCallsPerCaller == 2
\* stage documents the collection holds while two seedings interleave
MaxRacingStages == 14
\* clock ticks per calendar day (due dates are dates)
TicksPerDay == 1

(***************************************************************************)
(* Data the out-of-scope CRUD owns: funds, investor profiles, the user.    *)
(***************************************************************************)
FundIds == {"F1", "F2"}
InvestorIds == {"I1", "I2", "I3", "I4"}
\* investor_profiles.fund_id: the legacy fund of each investor
LegacyFund(i) == IF i = "I2" THEN "F2" ELSE "F1"
\* an investor_profiles document: the fields the capital classifier reads
InvestorProfile(id, fund_id, investment_size, expected_ticket_amount) ==
  [id |-> id, fund_id |-> fund_id, investment_size |-> investment_size,
   expected_ticket_amount |-> expected_ticket_amount]
ActingUser == "U1"

\* Optional[...] = None for stage ids and timestamps
None == -1
NoDoc == [id |-> << >>] \* find_one(...) found nothing
\* stage ids offered as input that no stage document carries
UnknownStageIds == {99}
\* the stages offered as input, by name
OfferedStageNames == {"Prospects", "Investors"}

(***************************************************************************)
(* DEFAULT_PIPELINE_STAGES                                                 *)
(***************************************************************************)
DEFAULT_PIPELINE_STAGES ==
  << [name |-> "Prospects",               position |-> 0,  is_default |-> TRUE],
     [name |-> "Investors",               position |-> 1,  is_default |-> FALSE],
     [name |-> "Intro Email",             position |-> 2,  is_default |-> FALSE],
     [name |-> "Opportunity Email",       position |-> 3,  is_default |-> FALSE],
     [name |-> "Phone Call",              position |-> 4,  is_default |-> FALSE],
     [name |-> "First Meeting",           position |-> 5,  is_default |-> FALSE],
     [name |-> "Second Meeting",          position |-> 6,  is_default |-> FALSE],
     [name |-> "Follow Up Email",         position |-> 7,  is_default |-> FALSE],
     [name |-> "Signing Contract",        position |-> 8,  is_default |-> FALSE],
     [name |-> "Signing Subscription",    position |-> 9,  is_default |-> FALSE],
     [name |-> "Letter for Capital Call", position |-> 10, is_default |-> FALSE],
     [name |-> "Money Transfer",          position |-> 11, is_default |-> FALSE],
     [name |-> "Transfer Date",           position |-> 12, is_default |-> FALSE] >>

(***************************************************************************)
(* STAGE_AUTO_TASKS: title and priority of every checklist task, by stage  *)
(* name; STAGE_AUTO_TASKS.get(stage_name, []) is the empty list elsewhere. *)
(***************************************************************************)
T(title, priority) == [title |-> title, priority |-> priority]

STAGE_AUTO_TASKS(stage_name) ==
  CASE stage_name = "Prospects" ->
         << T("Research investor background", "medium"),
            T("Confirm check size range", "high"),
            T("Confirm sector alignment", "high"),
            T("Confirm geography alignment", "medium"),
            T("Review prior portfolio", "medium"),
            T("Identify warm intro path", "medium"),
            T("Assign relationship owner", "high") >>
    [] stage_name = "Investors" ->
         << T("Validate contact information", "high"),
            T("Identify decision maker", "high"),
            T("Map internal champion", "medium"),
            T("Log relationship strength (1-5)", "medium"),
            T("Tag investor type (Institutional / Family Office / Individual)", "medium"),
            T("Assign outreach strategy", "medium"),
            T("Prepare intro blurb", "medium") >>
    [] stage_name = "Intro Email" ->
         << T("Draft personalized intro email", "high"),
            T("Attach teaser (if applicable)", "medium"),
            T("Confirm warm intro path", "medium"),
            T("Send intro email", "high"),
            T("Log send date", "medium"),
            T("Set follow-up reminder (5-7 days)", "medium") >>
    [] stage_name = "Opportunity Email" ->
         << T("Send pitch deck", "high"),
            T("Send one-pager", "high"),
            T("Send data room access", "medium"),
            T("Log materials shared", "medium"),
            T("Confirm NDA (if required)", "medium"),
            T("Schedule call", "high"),
            T("Log engagement score", "medium") >>
    [] stage_name = "Phone Call" ->
         << T("Prepare call agenda", "high"),
            T("Review investor notes", "medium"),
            T("Confirm call participants", "medium"),
            T("Log meeting notes", "high"),
            T("Log objections", "medium"),
            T("Assign follow-up owner", "medium"),
            T("Schedule first meeting", "high") >>
    [] stage_name = "First Meeting" ->
         << T("Prepare detailed presentation", "high"),
            T("Customize slides for investor", "high"),
            T("Identify potential objections", "medium"),
            T("Log meeting notes", "high"),
            T("Log level of interest (Hot / Warm / Cold)", "high"),
            T("Identify decision timeline", "medium"),
            T("Schedule second meeting", "high") >>
    [] stage_name = "Second Meeting" ->
         << T("Send financial model", "high"),
            T("Share cap table", "high"),
            T("Share legal structure", "medium"),
            T("Share performance reports", "medium"),
            T("Answer follow-up questions", "high"),
            T("Log DD checklist", "medium"),
            T("Confirm soft commitment amount", "high") >>
    [] stage_name = "Follow Up Email" ->
         << T("Send summary email", "high"),
            T("Address objections", "high"),
            T("Confirm allocation size", "high"),
            T("Confirm timeline", "medium"),
            T("Request subscription agreement", "high") >>
    [] stage_name = "Signing Contract" ->
         << T("Send subscription agreement", "high"),
            T("Confirm entity name", "high"),
            T("Confirm allocation amount", "high"),
            T("Confirm wire instructions", "high"),
            T("Collect signed docs", "high"),
            T("Upload signed docs", "medium") >>
    [] stage_name = "Signing Subscription" ->
         << T("Confirm countersignature", "high"),
            T("Confirm compliance review", "high"),
            T("Confirm AML/KYC", "high"),
            T("Confirm transfer instructions", "high") >>
    [] stage_name = "Letter for Capital Call" ->
         << T("Draft capital call letter", "high"),
            T("Confirm transfer details", "high"),
            T("Send capital call", "high"),
            T("Confirm receipt of confirmation", "medium") >>
    [] stage_name = "Money Transfer" ->
         << T("Confirm transfer initiated", "high"),
            T("Confirm bank confirmation", "high"),
            T("Match funds to investor", "high"),
            T("Log amount received", "high"),
            T("Update total raised", "medium") >>
    [] stage_name = "Transfer Date" ->
         << T("Confirm funds settled", "high"),
            T("Update capital table", "high"),
            T("Notify finance", "medium"),
            T("Send confirmation email", "medium"),
            T("Send thank-you note", "low"),
            T("Mark investor as Active", "high") >>
    [] OTHER -> << >>

(***************************************************************************)
(* STAGE_DUE_DAYS.get(stage_name, 5)                                       *)
(***************************************************************************)
STAGE_DUE_DAYS(stage_name) ==
  CASE stage_name \in {"Prospects", "Investors", "Intro Email"} -> 3
    [] stage_name \in {"Opportunity Email", "Phone Call", "Follow Up Email"} -> 5
    [] stage_name \in {"First Meeting", "Signing Contract",
                       "Signing Subscription", "Transfer Date"} -> 7
    [] stage_name \in {"Second Meeting", "Letter for Capital Call"} -> 10
    [] stage_name = "Money Transfer" -> 14
    [] OTHER -> 5

VARIABLES
  investor_profiles,          \* db.investor_profiles
  pipeline_stages,            \* db.pipeline_stages, in natural (insertion) order
  investor_pipeline,          \* db.investor_pipeline
  user_tasks,                 \* db.user_tasks
  investor_fund_assignments,  \* db.investor_fund_assignments
  investor_requests,          \* db.investor_requests
  now,                        \* datetime.now(timezone.utc)
  edits,                      \* explicit task / stage edits done so far
  calls,                      \* the requests in flight (concurrent handlers)
  op,                         \* the last handler call and its outcome
  entered,                    \* history: (investor, stage) pairs entered so far
  generated                   \* history: batches inserted per (investor, stage)

vars == << investor_profiles, pipeline_stages, investor_pipeline, user_tasks,
           investor_fund_assignments, investor_requests, now, edits, calls,
           op, entered, generated >>

(***************************************************************************)
(* Helpers on collections.                                                 *)
(***************************************************************************)
Max(S) == IF S = {} THEN 0 ELSE CHOOSE x \in S : \A y \in S : y <= x
Min(S) == CHOOSE x \in S : \A y \in S : x <= y
Range(seq) == { seq[k] : k \in 1..Len(seq) }

\* the age of a document among those of its key: the last item of its id
Age(d) == d.id[Len(d.id)]

\* collection.find_one(query): the oldest matching document, or None
FindOne(matches) ==
  IF matches = {} THEN NoDoc
  ELSE CHOOSE d \in matches : \A e \in matches : Age(d) <= Age(e)

\* uuid4() for a pipeline entry of (fund, investor)
FreshEntryId(entries, fund_id, investor_id) ==
  << fund_id, investor_id,
     1 + Max({ Age(e) : e \in { x \in entries : /\ x.fund_id = fund_id
                                                 /\ x.investor_id = investor_id } }) >>

\* uuid4() for the k-th task of a batch of (investor, stage): n is the same
\* for the whole batch
FreshTaskId(tasks, investor_id, stage_id, k) ==
  << investor_id, stage_id, k,
     1 + Max({ Age(t) : t \in { x \in tasks : /\ x.id[1] = investor_id
                                               /\ x.id[2] = stage_id } }) >>

\* strftime('%Y-%m-%d') of a timestamp: its calendar day
DateOf(t) == t \div TicksPerDay

(***************************************************************************)
(* Stage registry.                                                         *)
(***************************************************************************)
\* PipelineStage(fund_id=..., name=..., position=..., is_default=...)
PipelineStage(id, fund_id, name, position, is_default) ==
  [id |-> id, fund_id |-> fund_id, name |-> name, position |-> position,
   is_default |-> is_default]

StagesOfFund(stages, fund_id) ==
  SelectSeq(stages, LAMBDA s : s.fund_id = fund_id)

\* the list as the collection returned it, left unsorted
KeepStoredOrder(seq) == seq

\* list.sort(key=position): a stable insertion sort
RECURSIVE SortByPosition(_)
SortByPosition(seq) ==
  IF Len(seq) <= 1 THEN seq
  ELSE LET front == SortByPosition(SubSeq(seq, 1, Len(seq) - 1))
           x == seq[Len(seq)]
           keep == { k \in 1..Len(front) : front[k].position <= x.position }
           n == Max(keep)
       IN SubSeq(front, 1, n) \o << x >> \o SubSeq(front, n + 1, Len(front))

\* the loop of get_pipeline_stages over DEFAULT_PIPELINE_STAGES
SeedStages(stages, fund_id) ==
  LET base == Max({ x.id : x \in Range(stages) })
  IN stages \o
     [ k \in 1..Len(DEFAULT_PIPELINE_STAGES) |->
         PipelineStage(base + k, fund_id, DEFAULT_PIPELINE_STAGES[k].name,
                       DEFAULT_PIPELINE_STAGES[k].position,
                       DEFAULT_PIPELINE_STAGES[k].is_default) ]

\* db.pipeline_stages.find_one({"id": stage_id})
FindStage(stages, stage_id) ==
  LET found == { x \in Range(stages) : x.id = stage_id }
  IN IF found = {} THEN NoDoc ELSE CHOOSE x \in found : TRUE

\* new_stage_doc["name"] if new_stage_doc else ""
StageNameOf(stages, stage_id) ==
  LET doc == FindStage(stages, stage_id)
  IN IF doc = NoDoc THEN "" ELSE doc.name

(***************************************************************************)
(* The outcome of the last handler call.                                   *)
(***************************************************************************)
Op(name, fund, investor, stage, status, result) ==
  [name |-> name, fund |-> fund, investor |-> investor, stage |-> stage,
   status |-> status, result |-> result]

NoOp == Op("none", "", "", None, 0, << >>)

(***************************************************************************)
(* Task generator.                                                         *)
(***************************************************************************)
\* UserTask(...) as auto_generate_stage_tasks builds it (status "open")
UserTask(id, fund_id, td, stage_id, stage_name, investor_id, due_date, created_by, is_auto_generated, updated_at) ==
  [id |-> id, fund_id |-> fund_id, title |-> td.title, stage_id |-> stage_id,
   stage_name |-> stage_name, investor_id |-> investor_id,
   priority |-> td.priority, due_date |-> due_date, status |-> "open",
   is_auto_generated |-> is_auto_generated, created_by |-> created_by,
   updated_at |-> updated_at]

\* db.user_tasks.count_documents({investor_id, stage_id, is_auto_generated: True})
existing_count(tasks, investor_id, stage_id) ==
  Cardinality({ t \in tasks : /\ t.investor_id = investor_id
                              /\ t.stage_id = stage_id
                              /\ t.is_auto_generated })

\* faulty variant of tasks_to_insert: the due date is computed once per task,
\* one day later for each item of the checklist
tasks_to_insert_staggered(tasks, fund_id, stage_id, stage_name, investor_id, created_by_id, t) ==
  LET task_defs == STAGE_AUTO_TASKS(stage_name)
  IN { UserTask(FreshTaskId(tasks, investor_id, stage_id, k), fund_id, task_defs[k], stage_id, stage_name,
                investor_id, DateOf(t) + STAGE_DUE_DAYS(stage_name) + k - 1, created_by_id, TRUE, t)
       : k \in 1..Len(task_defs) }

\* the batch auto_generate_stage_tasks inserts once its guard has passed
tasks_to_insert(tasks, fund_id, stage_id, stage_name, investor_id, created_by_id, t) ==
  LET task_defs == STAGE_AUTO_TASKS(stage_name)
      due_date == DateOf(t) + STAGE_DUE_DAYS(stage_name)
  IN { UserTask(FreshTaskId(tasks, investor_id, stage_id, k), fund_id, task_defs[k], stage_id, stage_name,
                investor_id, due_date, created_by_id, TRUE, t)
       : k \in 1..Len(task_defs) }

\* auto_generate_stage_tasks, run without interruption: the task store after it
auto_generate_stage_tasks(tasks, fund_id, stage_id, stage_name, investor_id, created_by_id, t) ==
  IF STAGE_AUTO_TASKS(stage_name) = << >> THEN tasks
  ELSE IF existing_count(tasks, investor_id, stage_id) > 0 THEN tasks
  ELSE tasks \cup tasks_to_insert(tasks, fund_id, stage_id, stage_name,
                                  investor_id, created_by_id, t)

\* a call of auto_generate_stage_tasks with the arguments the request holds
call_auto_generate_stage_tasks ==
  /\ op.name = "generate_request"
  /\ user_tasks' = auto_generate_stage_tasks(user_tasks, op.fund, op.stage,
                                             op.result.stage_name, op.investor,
                                             op.result.created_by_id, now)
  /\ op' = Op("auto_generate_stage_tasks", op.fund, op.investor, op.stage, 0, op.result)
  /\ UNCHANGED << investor_profiles, pipeline_stages, investor_pipeline,
                  investor_fund_assignments, investor_requests, now, edits, calls,
                  entered, generated >>

(***************************************************************************)
(* History of stage entries and of generated batches (not program state).  *)
(***************************************************************************)
Generated(g, p) == IF p \in DOMAIN g THEN g[p] ELSE 0

CountBatch(g, p, inserted) ==
  IF inserted
  THEN [ q \in DOMAIN g \cup {p} |-> IF q = p THEN Generated(g, p) + 1 ELSE g[q] ]
  ELSE g

(***************************************************************************)
(* Pipeline ledger.                                                        *)
(***************************************************************************)
\* InvestorPipeline(fund_id, investor_id, stage_id, position) and its defaults
InvestorPipeline(id, fund_id, investor_id, stage_id, position, t) ==
  [id |-> id, fund_id |-> fund_id, investor_id |-> investor_id,
   stage_id |-> stage_id, position |-> position, stage_entered_at |-> t,
   last_interaction_date |-> None, updated_at |-> t]

\* db.investor_pipeline.find_one({"fund_id": ..., "investor_id": ...})
FindEntry(entries, fund_id, investor_id) ==
  FindOne({ e \in entries : e.fund_id = fund_id /\ e.investor_id = investor_id })

\* db.investor_pipeline.find_one({"id": pipeline_id})
FindEntryById(entries, pipeline_id) ==
  FindOne({ e \in entries : e.id = pipeline_id })

\* update_one({"id": doc["id"]}, {"$set": ...}): the first document with that id
Replace(coll, doc, new) == (coll \ {doc}) \cup {new}

\* POST /investor-pipeline
add_investor_to_pipeline(fund_id, investor_id, stage_id, position) ==
  LET existing == FindEntry(investor_pipeline, fund_id, investor_id)
      pipeline_entry == InvestorPipeline(FreshEntryId(investor_pipeline, fund_id, investor_id), fund_id,
                                         investor_id, stage_id, position, now)
      tasks2 == auto_generate_stage_tasks(user_tasks, fund_id, stage_id,
                   StageNameOf(pipeline_stages, stage_id), investor_id,
                   ActingUser, now)
  IN /\ IF existing # NoDoc
        THEN /\ investor_pipeline' =
                  Replace(investor_pipeline, existing,
                          [existing EXCEPT !.stage_id = stage_id,
                                           !.position = position,
                                           !.updated_at = now])
             /\ entered' = IF existing.stage_id # stage_id
                           THEN entered \cup {<<investor_id, stage_id>>}
                           ELSE entered
             /\ UNCHANGED << user_tasks, generated >>
        ELSE /\ investor_pipeline' = investor_pipeline \cup {pipeline_entry}
             /\ user_tasks' = tasks2
             /\ entered' = entered \cup {<<investor_id, stage_id>>}
             /\ generated' = CountBatch(generated, <<investor_id, stage_id>>,
                                        tasks2 # user_tasks)
     /\ op' = Op("add_investor_to_pipeline", fund_id, investor_id, stage_id,
                 200, << >>)
     /\ UNCHANGED << pipeline_stages, investor_fund_assignments,
                     investor_requests, now, investor_profiles, edits, calls >>

\* faulty variant of stage_changed: every move counts as a stage change
stage_changed_always(pipeline_entry, new_stage_id) ==
  pipeline_entry.stage_id = pipeline_entry.stage_id

\* stage_changed = pipeline_entry.get("stage_id") != new_stage_id
stage_changed(pipeline_entry, new_stage_id) ==
  pipeline_entry.stage_id # new_stage_id

\* PUT /investor-pipeline/move/{investor_id}
move_investor_in_pipeline(investor_id, fund_id, new_stage_id, new_position) ==
  LET pipeline_entry == FindEntry(investor_pipeline, fund_id, investor_id)
      new_entry == InvestorPipeline(FreshEntryId(investor_pipeline, fund_id, investor_id), fund_id,
                                    investor_id, new_stage_id, new_position, now)
      changed == stage_changed(pipeline_entry, new_stage_id)
      tasks2 == auto_generate_stage_tasks(user_tasks, fund_id, new_stage_id,
                   StageNameOf(pipeline_stages, new_stage_id), investor_id,
                   ActingUser, now)
  IN /\ IF pipeline_entry = NoDoc
        THEN /\ investor_pipeline' = investor_pipeline \cup {new_entry}
             /\ user_tasks' = tasks2
             /\ entered' = entered \cup {<<investor_id, new_stage_id>>}
             /\ generated' = CountBatch(generated, <<investor_id, new_stage_id>>,
                                        tasks2 # user_tasks)
        ELSE /\ investor_pipeline' =
                  Replace(investor_pipeline, pipeline_entry,
                          [pipeline_entry EXCEPT
                             !.stage_id = new_stage_id,
                             !.position = new_position,
                             !.updated_at = now,
                             !.stage_entered_at = IF changed THEN now ELSE @])
             /\ user_tasks' = IF changed THEN tasks2 ELSE user_tasks
             /\ entered' = IF pipeline_entry.stage_id # new_stage_id
                           THEN entered \cup {<<investor_id, new_stage_id>>}
                           ELSE entered
             /\ generated' = CountBatch(generated, <<investor_id, new_stage_id>>,
                                        changed /\ tasks2 # user_tasks)
     /\ op' = Op("move_investor_in_pipeline", fund_id, investor_id,
                 new_stage_id, 200, << >>)
     /\ UNCHANGED << pipeline_stages, investor_fund_assignments,
                     investor_requests, now, investor_profiles, edits, calls >>

\* PUT /investor-pipeline/{pipeline_id}; a field left out of the body is None
update_investor_pipeline(pipeline_id, stage_id, position) ==
  LET pipeline_entry == FindEntryById(investor_pipeline, pipeline_id)
  IN /\ IF pipeline_entry = NoDoc
        THEN /\ op' = Op("update_investor_pipeline", "", "", stage_id, 404, << >>)
             /\ UNCHANGED << investor_pipeline, entered >>
        ELSE /\ investor_pipeline' =
                  Replace(investor_pipeline, pipeline_entry,
                          [pipeline_entry EXCEPT
                             !.stage_id = IF stage_id # None THEN stage_id ELSE @,
                             !.position = IF position # None THEN position ELSE @,
                             !.updated_at = now])
             /\ entered' = IF stage_id # None /\ pipeline_entry.stage_id # stage_id
                           THEN entered \cup {<<pipeline_entry.investor_id, stage_id>>}
                           ELSE entered
             /\ op' = Op("update_investor_pipeline", pipeline_entry.fund_id,
                         pipeline_entry.investor_id, stage_id, 200, << >>)
     /\ UNCHANGED << pipeline_stages, user_tasks, investor_fund_assignments,
                     investor_requests, now, investor_profiles, edits, calls, generated >>

\* faulty variant of remove_investor_from_pipeline: the removal cascades to the
\* investor's tasks of the fund, as delete_investor_fund_assignment does
remove_with_task_cascade(pipeline_id) ==
  LET pipeline_entry == FindEntryById(investor_pipeline, pipeline_id)
  IN /\ IF pipeline_entry = NoDoc
        THEN /\ op' = Op("remove_investor_from_pipeline", "", "", None, 404, << >>)
             /\ UNCHANGED << investor_pipeline, user_tasks >>
        ELSE /\ investor_pipeline' = investor_pipeline \ {pipeline_entry}
             /\ user_tasks' = { t \in user_tasks :
                                  ~ (/\ t.investor_id = pipeline_entry.investor_id
                                     /\ t.fund_id = pipeline_entry.fund_id) }
             /\ op' = Op("remove_investor_from_pipeline", pipeline_entry.fund_id,
                         pipeline_entry.investor_id, pipeline_entry.stage_id,
                         200, << >>)
     /\ UNCHANGED << pipeline_stages, investor_fund_assignments,
                     investor_requests, now, investor_profiles, edits, calls, entered, generated >>

\* DELETE /investor-pipeline/{pipeline_id}
remove_investor_from_pipeline(pipeline_id) ==
  LET pipeline_entry == FindEntryById(investor_pipeline, pipeline_id)
  IN /\ IF pipeline_entry = NoDoc
        THEN /\ op' = Op("remove_investor_from_pipeline", "", "", None, 404, << >>)
             /\ UNCHANGED investor_pipeline
        ELSE /\ investor_pipeline' = investor_pipeline \ {pipeline_entry}
             /\ op' = Op("remove_investor_from_pipeline", pipeline_entry.fund_id,
                         pipeline_entry.investor_id, pipeline_entry.stage_id,
                         200, << >>)
     /\ UNCHANGED << pipeline_stages, user_tasks, investor_fund_assignments,
                     investor_requests, now, investor_profiles, edits, calls, entered, generated >>

\* POST /investor-notes (the note itself goes to db.investor_notes, which no
\* handler of the engine reads)
create_investor_note(investor_id) ==
  /\ IF investor_id \notin InvestorIds
     THEN /\ op' = Op("create_investor_note", "", investor_id, None, 404, << >>)
          /\ UNCHANGED investor_pipeline
     ELSE /\ investor_pipeline' =
               { IF e.investor_id = investor_id
                 THEN [e EXCEPT !.last_interaction_date = now] ELSE e
                 : e \in investor_pipeline }
          /\ op' = Op("create_investor_note", "", investor_id, None, 200, << >>)
  /\ UNCHANGED << pipeline_stages, user_tasks, investor_fund_assignments,
                  investor_requests, now, investor_profiles, edits, calls, entered, generated >>

\* time passes between two requests
Tick ==
  /\ now < MaxClock
  /\ now' = now + 1
  /\ op' = Op("tick", "", "", None, 0, << >>)
  /\ UNCHANGED << pipeline_stages, investor_pipeline, user_tasks,
                  investor_fund_assignments, investor_requests, edits, calls, investor_profiles,
                  entered, generated >>

(***************************************************************************)
(* Fund assignments and assignment requests.                               *)
(***************************************************************************)
\* db.pipeline_stages.find_one({"fund_id": fund_id, "name": "Investors"})
FindStageByName(stages, fund_id, name) ==
  LET found == { k \in 1..Len(stages) :
                   stages[k].fund_id = fund_id /\ stages[k].name = name }
  IN IF found = {} THEN NoDoc ELSE stages[Min(found)]

\* db.investor_fund_assignments.find_one({"investor_id": ..., "fund_id": ...})
FindAssignment(assignments, investor_id, fund_id) ==
  FindOne({ a \in assignments : a.investor_id = investor_id /\ a.fund_id = fund_id })

\* existing_assignment or (legacy_assignment and existing_pipeline)
already_assigned(assignments, entries, investor_id, fund_id) ==
  \/ FindAssignment(assignments, investor_id, fund_id) # NoDoc
  \/ /\ LegacyFund(investor_id) = fund_id
     /\ FindEntry(entries, fund_id, investor_id) # NoDoc

\* initial_stage_id, defaulted to the fund's "Investors" stage when not given
default_initial_stage(stages, fund_id, initial_stage_id) ==
  IF initial_stage_id # None THEN initial_stage_id
  ELSE LET default_stage == FindStageByName(stages, fund_id, "Investors")
       IN IF default_stage # NoDoc THEN default_stage.id ELSE None

\* InvestorFundAssignment(investor_id, fund_id, initial_stage_id, ...)
InvestorFundAssignment(assignments, investor_id, fund_id, initial_stage_id) ==
  [id |-> << investor_id, fund_id,
             1 + Max({ Age(a) : a \in { x \in assignments :
                                          /\ x.investor_id = investor_id
                                          /\ x.fund_id = fund_id } }) >>,
   investor_id |-> investor_id, fund_id |-> fund_id,
   initial_stage_id |-> initial_stage_id]

\* new_position: one past the highest position in the stage, 0 in an empty one
new_position_in(entries, fund_id, stage_id) ==
  LET inside == { e \in entries : e.fund_id = fund_id /\ e.stage_id = stage_id }
  IN IF inside = {} THEN 0
     ELSE 1 + (CHOOSE x \in { e.position : e \in inside } :
                 \A y \in { e.position : e \in inside } : y <= x)

\* "Create pipeline entry for this fund": the entries after the assignment
entries_after_assignment(entries, investor_id, fund_id, initial_stage_id, t) ==
  IF initial_stage_id # None
  THEN entries \cup
       { InvestorPipeline(FreshEntryId(entries, fund_id, investor_id), fund_id,
                          investor_id, initial_stage_id,
                          new_position_in(entries, fund_id, initial_stage_id), t) }
  ELSE entries

\* one turn of the loop of create_investor_fund_assignments; db holds the two
\* collections and the two lists of the response
assign_one(db, stages, investor_id, fa, t) ==
  IF fa.fund_id \notin FundIds THEN db
  ELSE IF already_assigned(db.assignments, db.entries, investor_id, fa.fund_id)
  THEN [db EXCEPT !.already = Append(@, fa.fund_id)]
  ELSE LET initial == default_initial_stage(stages, fa.fund_id, fa.initial_stage_id)
       IN [ assignments |-> db.assignments \cup
                            { InvestorFundAssignment(db.assignments, investor_id,
                                                     fa.fund_id, initial) },
            entries |-> entries_after_assignment(db.entries, investor_id,
                                                 fa.fund_id, initial, t),
            created |-> Append(db.created, fa.fund_id),
            already |-> db.already ]

RECURSIVE assign_loop(_, _, _, _, _)
assign_loop(db, stages, investor_id, fund_assignments, t) ==
  IF fund_assignments = << >> THEN db
  ELSE assign_loop(assign_one(db, stages, investor_id, Head(fund_assignments), t),
                   stages, investor_id, Tail(fund_assignments), t)

\* POST /admin/investor-fund-assignments
create_investor_fund_assignments(investor_id, fund_assignments) ==
  LET db == assign_loop([assignments |-> investor_fund_assignments,
                         entries |-> investor_pipeline,
                         created |-> << >>, already |-> << >>],
                        pipeline_stages, investor_id, fund_assignments, now)
  IN /\ IF investor_id \notin InvestorIds
        THEN /\ op' = Op("create_investor_fund_assignments", "", investor_id,
                         None, 404, << >>)
             /\ UNCHANGED << investor_fund_assignments, investor_pipeline >>
        ELSE /\ investor_fund_assignments' = db.assignments
             /\ investor_pipeline' = db.entries
             /\ op' = Op("create_investor_fund_assignments", "", investor_id,
                         None, 200, db.created)
     /\ UNCHANGED << pipeline_stages, user_tasks, investor_requests, now, investor_profiles,
                     edits, calls, entered, generated >>

\* db.investor_requests.find_one({"id": request_id})
FindRequest(requests, request_id) ==
  FindOne({ r \in requests : r.id = request_id })

\* InvestorAssignmentRequest(investor_id, requested_fund_id, ...): pending
InvestorAssignmentRequest(requests, investor_id, fund_id) ==
  [id |-> << investor_id, fund_id,
             1 + Max({ Age(r) : r \in { x \in requests :
                                          /\ x.investor_id = investor_id
                                          /\ x.requested_fund_id = fund_id } }) >>,
   investor_id |-> investor_id, requested_fund_id |-> fund_id,
   status |-> "pending"]

\* POST /investor-requests (the caller has access to the fund)
create_investor_request(investor_id, fund_id) ==
  LET pending == { r \in investor_requests :
                     /\ r.investor_id = investor_id
                     /\ r.requested_fund_id = fund_id
                     /\ r.status = "pending" }
      status == IF investor_id \notin InvestorIds \/ fund_id \notin FundIds
                THEN 404
                ELSE IF already_assigned(investor_fund_assignments,
                                         investor_pipeline, investor_id, fund_id)
                THEN 400
                ELSE IF pending # {} THEN 400 ELSE 200
  IN /\ investor_requests' =
          IF status = 200
          THEN investor_requests \cup
               { InvestorAssignmentRequest(investor_requests, investor_id, fund_id) }
          ELSE investor_requests
     /\ op' = Op("create_investor_request", fund_id, investor_id, None, status, << >>)
     /\ UNCHANGED << pipeline_stages, investor_pipeline, user_tasks,
                     investor_fund_assignments, now, investor_profiles, edits, calls, entered,
                     generated >>

\* PUT /admin/investor-requests/{request_id}/approve
approve_investor_request(request_id, initial_stage_id) ==
  LET request == FindRequest(investor_requests, request_id)
      investor_id == request.investor_id
      fund_id == request.requested_fund_id
      initial == default_initial_stage(pipeline_stages, fund_id, initial_stage_id)
      approved == [request EXCEPT !.status = "approved"]
  IN /\ IF request = NoDoc
        THEN /\ op' = Op("approve_investor_request", "", "", None, 404, << >>)
             /\ UNCHANGED << investor_requests, investor_fund_assignments,
                             investor_pipeline >>
        ELSE IF request.status # "pending"
        THEN /\ op' = Op("approve_investor_request", fund_id, investor_id,
                         None, 400, << >>)
             /\ UNCHANGED << investor_requests, investor_fund_assignments,
                             investor_pipeline >>
        ELSE IF already_assigned(investor_fund_assignments, investor_pipeline,
                                 investor_id, fund_id)
        THEN /\ investor_requests' = Replace(investor_requests, request, approved)
             /\ op' = Op("approve_investor_request", fund_id, investor_id,
                         None, 200, << >>)
             /\ UNCHANGED << investor_fund_assignments, investor_pipeline >>
        ELSE /\ investor_fund_assignments' = investor_fund_assignments \cup
                  { InvestorFundAssignment(investor_fund_assignments,
                                           investor_id, fund_id, initial) }
             /\ investor_pipeline' =
                  entries_after_assignment(investor_pipeline, investor_id,
                                           fund_id, initial, now)
             /\ investor_requests' = Replace(investor_requests, request, approved)
             /\ op' = Op("approve_investor_request", fund_id, investor_id,
                         initial, 200, << fund_id >>)
     /\ UNCHANGED << pipeline_stages, user_tasks, now, investor_profiles, edits, calls, entered,
                     generated >>

\* faulty variant of deny_investor_request: the status of the request is
\* not looked at, so a resolved request is resolved again
deny_resolved_request(request_id) ==
  LET request == FindRequest(investor_requests, request_id)
  IN /\ IF request = NoDoc
        THEN /\ op' = Op("deny_investor_request", "", "", None, 404, << >>)
             /\ UNCHANGED investor_requests
        ELSE /\ investor_requests' =
                  Replace(investor_requests, request,
                          [request EXCEPT !.status = "denied"])
             /\ op' = Op("deny_investor_request", request.requested_fund_id,
                         request.investor_id, None, 200, << >>)
     /\ UNCHANGED << pipeline_stages, investor_pipeline, user_tasks,
                     investor_fund_assignments, now, investor_profiles, edits, calls, entered,
                     generated >>

\* PUT /admin/investor-requests/{request_id}/deny
deny_investor_request(request_id) ==
  LET request == FindRequest(investor_requests, request_id)
  IN /\ IF request = NoDoc
        THEN /\ op' = Op("deny_investor_request", "", "", None, 404, << >>)
             /\ UNCHANGED investor_requests
        ELSE IF request.status # "pending"
        THEN /\ op' = Op("deny_investor_request", request.requested_fund_id,
                         request.investor_id, None, 400, << >>)
             /\ UNCHANGED investor_requests
        ELSE /\ investor_requests' =
                  Replace(investor_requests, request,
                          [request EXCEPT !.status = "denied"])
             /\ op' = Op("deny_investor_request", request.requested_fund_id,
                         request.investor_id, None, 200, << >>)
     /\ UNCHANGED << pipeline_stages, investor_pipeline, user_tasks,
                     investor_fund_assignments, now, investor_profiles, edits, calls, entered,
                     generated >>

(***************************************************************************)
(* Investor deletion paths: merge, admin delete, profile delete.           *)
(***************************************************************************)
\* db.investor_profiles.find_one({"id": investor_id}) found a profile
profile_exists(profiles, investor_id) == \E p \in profiles : p.id = investor_id

\* one turn of the loop of merge_investors: the pipeline entries of del_id are
\* deleted, its tasks are reassigned to keep_id, its profile is deleted
merge_one(db, keep_id, del_id) ==
  [ entries |-> { e \in db.entries : e.investor_id # del_id },
    tasks |-> { IF t.investor_id = del_id THEN [t EXCEPT !.investor_id = keep_id] ELSE t
                : t \in db.tasks },
    profiles |-> { q \in db.profiles : q.id # del_id } ]

RECURSIVE merge_loop(_, _, _)
merge_loop(db, keep_id, delete_ids) ==
  IF delete_ids = << >> THEN db
  ELSE merge_loop(merge_one(db, keep_id, Head(delete_ids)), keep_id, Tail(delete_ids))

\* POST /admin/merge-investors
merge_investors(keep_id, delete_ids) ==
  LET found == /\ profile_exists(investor_profiles, keep_id)
               /\ \A k \in 1..Len(delete_ids) :
                    profile_exists(investor_profiles, delete_ids[k])
      db == merge_loop([entries |-> investor_pipeline, tasks |-> user_tasks,
                        profiles |-> investor_profiles], keep_id, delete_ids)
  IN /\ IF ~found
        THEN /\ op' = Op("merge_investors", "", keep_id, None, 404, delete_ids)
             /\ UNCHANGED << investor_pipeline, user_tasks, investor_profiles >>
        ELSE /\ investor_pipeline' = db.entries
             /\ user_tasks' = db.tasks
             /\ investor_profiles' = db.profiles
             /\ op' = Op("merge_investors", "", keep_id, None, 200, delete_ids)
     /\ UNCHANGED << pipeline_stages, investor_fund_assignments, investor_requests,
                     now, edits, calls, entered, generated >>

\* DELETE /admin/investor/{investor_id}
admin_delete_investor(investor_id) ==
  /\ IF ~profile_exists(investor_profiles, investor_id)
     THEN /\ op' = Op("admin_delete_investor", "", investor_id, None, 404, << >>)
          /\ UNCHANGED << investor_pipeline, user_tasks, investor_profiles >>
     ELSE /\ investor_pipeline' = { e \in investor_pipeline : e.investor_id # investor_id }
          /\ user_tasks' = { t \in user_tasks : t.investor_id # investor_id }
          /\ investor_profiles' = { q \in investor_profiles : q.id # investor_id }
          /\ op' = Op("admin_delete_investor", "", investor_id, None, 200,
                      << investor_id >>)
  /\ UNCHANGED << pipeline_stages, investor_fund_assignments, investor_requests,
                  now, edits, calls, entered, generated >>

\* DELETE /investor-profiles/{profile_id} (the caller has access to the fund)
delete_investor_profile(profile_id) ==
  /\ IF ~profile_exists(investor_profiles, profile_id)
     THEN /\ op' = Op("delete_investor_profile", "", profile_id, None, 404, << >>)
          /\ UNCHANGED investor_profiles
     ELSE /\ investor_profiles' = { q \in investor_profiles : q.id # profile_id }
          /\ op' = Op("delete_investor_profile", "", profile_id, None, 200,
                      << profile_id >>)
  /\ UNCHANGED << pipeline_stages, investor_pipeline, user_tasks,
                  investor_fund_assignments, investor_requests, now, edits, calls,
                  entered, generated >>

(***************************************************************************)
(* Task manager: edits and deletions of single tasks.                      *)
(***************************************************************************)
\* db.user_tasks.find_one({"id": task_id})
FindTask(tasks, task_id) == FindOne({ t \in tasks : t.id = task_id })

\* {"$set": update_dict}: the fields of the body that are not None, and updated_at
set_fields(task, update_dict, t) ==
  [ k \in DOMAIN task |->
      IF k = "updated_at" THEN t
      ELSE IF k \in DOMAIN update_dict THEN update_dict[k] ELSE task[k] ]

\* PUT /user-tasks/{task_id}
update_user_task(task_id, task_data) ==
  LET task == FindTask(user_tasks, task_id)
  IN /\ IF task = NoDoc
        THEN /\ op' = Op("update_user_task", "", "", None, 404, << >>)
             /\ UNCHANGED user_tasks
        ELSE /\ user_tasks' = Replace(user_tasks, task, set_fields(task, task_data, now))
             /\ op' = Op("update_user_task", task.fund_id, task.investor_id,
                         task.stage_id, 200, << task_id >>)
     /\ edits' = edits + 1
     /\ UNCHANGED << pipeline_stages, investor_pipeline, investor_fund_assignments,
                     investor_requests, now, investor_profiles, calls, entered, generated >>

\* DELETE /user-tasks/{task_id}
delete_user_task(task_id) ==
  LET task == FindTask(user_tasks, task_id)
  IN /\ IF task = NoDoc
        THEN /\ op' = Op("delete_user_task", "", "", None, 404, << >>)
             /\ UNCHANGED user_tasks
        ELSE /\ user_tasks' = user_tasks \ {task}
             /\ op' = Op("delete_user_task", task.fund_id, task.investor_id,
                         task.stage_id, 200, << task_id >>)
     /\ edits' = edits + 1
     /\ UNCHANGED << pipeline_stages, investor_pipeline, investor_fund_assignments,
                     investor_requests, now, investor_profiles, calls, entered, generated >>

\* faulty variant of set_status: completing or reopening a task also
\* completes or reopens the other tasks of its investor and stage
set_status_of_batch(task_id, status, name) ==
  LET task == FindTask(user_tasks, task_id)
  IN /\ IF task = NoDoc
        THEN /\ op' = Op(name, "", "", None, 404, << task_id >>)
             /\ UNCHANGED user_tasks
        ELSE /\ user_tasks' =
                  { IF t.investor_id = task.investor_id /\ t.stage_id = task.stage_id
                    THEN [t EXCEPT !.status = status, !.updated_at = now] ELSE t :
                    t \in user_tasks }
             /\ op' = Op(name, task.fund_id, task.investor_id, task.stage_id,
                         200, << task_id >>)
     /\ edits' = edits + 1
     /\ UNCHANGED << pipeline_stages, investor_pipeline, investor_fund_assignments,
                     investor_requests, now, investor_profiles, calls, entered, generated >>

\* the body shared by complete_user_task and reopen_user_task: find_one, 404,
\* update_one({"id": task_id}, {"$set": {status, updated_at}})
set_status(task_id, status, name) ==
  LET task == FindTask(user_tasks, task_id)
  IN /\ IF task = NoDoc
        THEN /\ op' = Op(name, "", "", None, 404, << task_id >>)
             /\ UNCHANGED user_tasks
        ELSE /\ user_tasks' = Replace(user_tasks, task,
                                      [task EXCEPT !.status = status, !.updated_at = now])
             /\ op' = Op(name, task.fund_id, task.investor_id, task.stage_id,
                         200, << task_id >>)
     /\ edits' = edits + 1
     /\ UNCHANGED << pipeline_stages, investor_pipeline, investor_fund_assignments,
                     investor_requests, now, investor_profiles, calls, entered, generated >>

\* PUT /user-tasks/{task_id}/complete
complete_user_task(task_id) == set_status(task_id, "completed", "complete_user_task")

\* PUT /user-tasks/{task_id}/reopen
reopen_user_task(task_id) == set_status(task_id, "open", "reopen_user_task")

\* the tasks get_user_tasks lists (their ids; the order of the list is left out)
user_tasks_listed(tasks, fund_id, include_completed) ==
  { t.id : t \in { x \in tasks :
                     x.fund_id = fund_id /\ (~include_completed => x.status = "open") } }

\* the tasks get_fund_tasks derives for a fund.  It reads funds,
\* investor_profiles, investor_pipeline, pipeline_stages and task_due_dates,
\* never user_tasks; the derivation itself is left out: one system task
\* stands for each pipeline entry of the fund.
system_tasks(entries, fund_id) == { e.id : e \in { x \in entries : x.fund_id = fund_id } }

\* total_tasks of get_all_tasks: the system tasks and the open user tasks
all_tasks_total(entries, tasks, fund_id) ==
  Cardinality(system_tasks(entries, fund_id))
  + Cardinality(user_tasks_listed(tasks, fund_id, FALSE))

\* GET /funds/{fund_id}/user-tasks
get_user_tasks(fund_id, include_completed) ==
  /\ op' = Op("get_user_tasks", fund_id, "", None, 200,
              [total_tasks |->
                 Cardinality(user_tasks_listed(user_tasks, fund_id, include_completed)),
               tasks |-> user_tasks_listed(user_tasks, fund_id, include_completed)])
  /\ UNCHANGED << investor_profiles, pipeline_stages, investor_pipeline, user_tasks,
                  investor_fund_assignments, investor_requests, now, edits, calls,
                  entered, generated >>

\* GET /funds/{fund_id}/all-tasks
get_all_tasks(fund_id) ==
  /\ op' = Op("get_all_tasks", fund_id, "", None, 200,
              [total_tasks |-> all_tasks_total(investor_pipeline, user_tasks, fund_id),
               system_tasks_count |-> Cardinality(system_tasks(investor_pipeline, fund_id)),
               user_tasks_count |->
                 Cardinality(user_tasks_listed(user_tasks, fund_id, FALSE))])
  /\ UNCHANGED << investor_profiles, pipeline_stages, investor_pipeline, user_tasks,
                  investor_fund_assignments, investor_requests, now, edits, calls,
                  entered, generated >>

(***************************************************************************)
(* The ledger handlers and the task generator, one step per await: every   *)
(* await hands control to the event loop, so the steps of the requests     *)
(* in flight interleave.  calls[c] is the frame of caller c's request.     *)
(***************************************************************************)
Callers == {"A", "B"}

IdleFrame(n) ==
  [pc |-> "idle", handler |-> "", fund_id |-> "", investor_id |-> "",
   stage_id |-> None, position |-> 0, pipeline_entry |-> NoDoc,
   stage_changed |-> FALSE, stage_name |-> "", n |-> n]

\* the request of caller c has returned its response
Returned(c) ==
  /\ calls' = [calls EXCEPT ![c] = IdleFrame(calls[c].n)]
  /\ op' = Op(calls[c].handler, calls[c].fund_id, calls[c].investor_id,
              calls[c].stage_id, 200, << c >>)

\* the request of caller c is suspended at its next await
Awaiting(c, pc, frame) ==
  /\ calls' = [calls EXCEPT ![c] = [frame EXCEPT !.pc = pc]]
  /\ op' = op

\* existing = await db.investor_pipeline.find_one({fund_id, investor_id})
add_find_one(c, fund_id, investor_id, stage_id, position) ==
  LET existing == FindEntry(investor_pipeline, fund_id, investor_id)
      frame == [IdleFrame(calls[c].n + 1) EXCEPT
                  !.handler = "add_investor_to_pipeline",
                  !.fund_id = fund_id, !.investor_id = investor_id,
                  !.stage_id = stage_id, !.position = position,
                  !.pipeline_entry = existing]
  IN /\ calls[c].pc = "idle"
     /\ Awaiting(c, IF existing # NoDoc THEN "add_update_one" ELSE "add_insert_one", frame)
     /\ UNCHANGED << pipeline_stages, investor_pipeline, user_tasks,
                     investor_fund_assignments, investor_requests, now, investor_profiles, edits,
                     entered, generated >>

\* await db.investor_pipeline.update_one({"id": existing["id"]}, {"$set": update_dict})
add_update_one(c) ==
  LET fr == calls[c]
      stored == FindEntryById(investor_pipeline, fr.pipeline_entry.id)
  IN /\ fr.pc = "add_update_one"
     /\ investor_pipeline' =
          IF stored = NoDoc THEN investor_pipeline
          ELSE Replace(investor_pipeline, stored,
                       [stored EXCEPT !.stage_id = fr.stage_id,
                                      !.position = fr.position,
                                      !.updated_at = now])
     /\ entered' = IF stored # NoDoc /\ stored.stage_id # fr.stage_id
                   THEN entered \cup {<< fr.investor_id, fr.stage_id >>}
                   ELSE entered
     /\ Awaiting(c, "find_updated", fr)
     /\ UNCHANGED << pipeline_stages, user_tasks, investor_fund_assignments,
                     investor_requests, now, investor_profiles, edits, generated >>

\* await db.investor_pipeline.insert_one(pipeline_entry.model_dump())
add_insert_one(c) ==
  LET fr == calls[c]
  IN /\ fr.pc = "add_insert_one"
     /\ investor_pipeline' = investor_pipeline \cup
          { InvestorPipeline(FreshEntryId(investor_pipeline, fr.fund_id, fr.investor_id),
                             fr.fund_id, fr.investor_id, fr.stage_id, fr.position, now) }
     /\ entered' = entered \cup {<< fr.investor_id, fr.stage_id >>}
     /\ Awaiting(c, "find_stage_doc", fr)
     /\ UNCHANGED << pipeline_stages, user_tasks, investor_fund_assignments,
                     investor_requests, now, investor_profiles, edits, generated >>

\* pipeline_entry = await db.investor_pipeline.find_one({fund_id, investor_id})
move_find_one(c, investor_id, fund_id, new_stage_id, new_position) ==
  LET pipeline_entry == FindEntry(investor_pipeline, fund_id, investor_id)
      frame == [IdleFrame(calls[c].n + 1) EXCEPT
                  !.handler = "move_investor_in_pipeline",
                  !.fund_id = fund_id, !.investor_id = investor_id,
                  !.stage_id = new_stage_id, !.position = new_position,
                  !.pipeline_entry = pipeline_entry,
                  !.stage_changed = (pipeline_entry # NoDoc /\ stage_changed(pipeline_entry, new_stage_id))]
  IN /\ calls[c].pc = "idle"
     /\ Awaiting(c, IF pipeline_entry = NoDoc THEN "move_insert_one" ELSE "move_update_one", frame)
     /\ UNCHANGED << pipeline_stages, investor_pipeline, user_tasks,
                     investor_fund_assignments, investor_requests, now, investor_profiles, edits,
                     entered, generated >>

\* await db.investor_pipeline.insert_one(new_entry.model_dump())
move_insert_one(c) ==
  LET fr == calls[c]
  IN /\ fr.pc = "move_insert_one"
     /\ investor_pipeline' = investor_pipeline \cup
          { InvestorPipeline(FreshEntryId(investor_pipeline, fr.fund_id, fr.investor_id),
                             fr.fund_id, fr.investor_id, fr.stage_id, fr.position, now) }
     /\ entered' = entered \cup {<< fr.investor_id, fr.stage_id >>}
     /\ Awaiting(c, "find_stage_doc", fr)
     /\ UNCHANGED << pipeline_stages, user_tasks, investor_fund_assignments,
                     investor_requests, now, investor_profiles, edits, generated >>

\* await db.investor_pipeline.update_one({"id": pipeline_entry["id"]}, {"$set": update_dict})
move_update_one(c) ==
  LET fr == calls[c]
      stored == FindEntryById(investor_pipeline, fr.pipeline_entry.id)
  IN /\ fr.pc = "move_update_one"
     /\ investor_pipeline' =
          IF stored = NoDoc THEN investor_pipeline
          ELSE Replace(investor_pipeline, stored,
                       [stored EXCEPT
                          !.stage_id = fr.stage_id,
                          !.position = fr.position,
                          !.updated_at = now,
                          !.stage_entered_at = IF fr.stage_changed THEN now ELSE @])
     /\ entered' = IF stored # NoDoc /\ stored.stage_id # fr.stage_id
                   THEN entered \cup {<< fr.investor_id, fr.stage_id >>}
                   ELSE entered
     /\ Awaiting(c, IF fr.stage_changed THEN "find_stage_doc" ELSE "find_updated", fr)
     /\ UNCHANGED << pipeline_stages, user_tasks, investor_fund_assignments,
                     investor_requests, now, investor_profiles, edits, generated >>

\* where the handler goes on once auto_generate_stage_tasks has returned: the
\* branch that created the entry returns it, the other one reads it back
AfterTasks(c, frame) ==
  IF frame.pipeline_entry = NoDoc THEN Returned(c)
  ELSE Awaiting(c, "find_updated", frame)

\* new_stage_doc = await db.pipeline_stages.find_one({"id": new_stage_id}) (and
\* the investor's profile, which supplies only the name shown on the tasks),
\* then auto_generate_stage_tasks up to its first await
find_stage_doc(c) ==
  LET fr == [calls[c] EXCEPT !.stage_name = StageNameOf(pipeline_stages, calls[c].stage_id)]
  IN /\ calls[c].pc = "find_stage_doc"
     /\ IF STAGE_AUTO_TASKS(fr.stage_name) = << >>
        THEN AfterTasks(c, fr)
        ELSE Awaiting(c, "count_documents", fr)
     /\ UNCHANGED << pipeline_stages, investor_pipeline, user_tasks,
                     investor_fund_assignments, investor_requests, now, investor_profiles, edits,
                     entered, generated >>

\* existing_count = await db.user_tasks.count_documents({...})
count_documents(c) ==
  LET fr == calls[c]
  IN /\ fr.pc = "count_documents"
     /\ IF existing_count(user_tasks, fr.investor_id, fr.stage_id) > 0
        THEN AfterTasks(c, fr)
        ELSE Awaiting(c, "insert_many", fr)
     /\ UNCHANGED << pipeline_stages, investor_pipeline, user_tasks,
                     investor_fund_assignments, investor_requests, now, investor_profiles, edits,
                     entered, generated >>

\* await db.user_tasks.insert_many(tasks_to_insert)
insert_many(c) ==
  LET fr == calls[c]
  IN /\ fr.pc = "insert_many"
     /\ user_tasks' = user_tasks \cup
          tasks_to_insert(user_tasks, fr.fund_id, fr.stage_id, fr.stage_name,
                          fr.investor_id, ActingUser, now)
     /\ generated' = CountBatch(generated, << fr.investor_id, fr.stage_id >>, TRUE)
     /\ AfterTasks(c, fr)
     /\ UNCHANGED << pipeline_stages, investor_pipeline, investor_fund_assignments,
                     investor_requests, now, investor_profiles, edits, entered >>

\* updated = await db.investor_pipeline.find_one({"id": ...}); return updated
find_updated(c) ==
  /\ calls[c].pc = "find_updated"
  /\ Returned(c)
  /\ UNCHANGED << pipeline_stages, investor_pipeline, user_tasks,
                  investor_fund_assignments, investor_requests, now, investor_profiles, edits,
                  entered, generated >>

(***************************************************************************)
(* Stage registry handlers.                                                *)
(***************************************************************************)
\* GET /funds/{fund_id}/pipeline-stages
get_pipeline_stages(fund_id) ==
  LET stages == StagesOfFund(pipeline_stages, fund_id)
      seeded == SeedStages(pipeline_stages, fund_id)
      listed == IF stages = << >> THEN StagesOfFund(seeded, fund_id) ELSE stages
  IN /\ pipeline_stages' = IF stages = << >> THEN seeded ELSE pipeline_stages
     /\ op' = Op("get_pipeline_stages", fund_id, "", None, 200, SortByPosition(listed))
     /\ UNCHANGED << investor_pipeline, user_tasks, investor_fund_assignments,
                     investor_requests, now, investor_profiles, edits, calls, entered, generated >>

\* POST /funds/{fund_id}/pipeline-stages
create_pipeline_stage(fund_id, stage_data) ==
  LET existing_stages == StagesOfFund(pipeline_stages, fund_id)
      max_position == IF existing_stages = << >> THEN -1
                      ELSE CHOOSE x \in { s.position : s \in Range(existing_stages) } :
                             \A s \in Range(existing_stages) : s.position <= x
      stage == PipelineStage(1 + Max({ x.id : x \in Range(pipeline_stages) }),
                             fund_id, stage_data.name, max_position + 1, FALSE)
  IN /\ IF stage_data.fund_id # fund_id
        THEN /\ op' = Op("create_pipeline_stage", fund_id, "", None, 400, << >>)
             /\ UNCHANGED pipeline_stages
        ELSE /\ pipeline_stages' = Append(pipeline_stages, stage)
             /\ op' = Op("create_pipeline_stage", fund_id, "", stage.id, 200, << stage >>)
     /\ edits' = edits + 1
     /\ UNCHANGED << investor_pipeline, user_tasks, investor_fund_assignments,
                     investor_requests, now, investor_profiles, calls, entered, generated >>

\* PUT /pipeline-stages/{stage_id}: the fields of the body that are not None
update_pipeline_stage(stage_id, stage_data) ==
  LET stage == FindStage(pipeline_stages, stage_id)
  IN /\ IF stage = NoDoc
        THEN /\ op' = Op("update_pipeline_stage", "", "", stage_id, 404, << >>)
             /\ UNCHANGED pipeline_stages
        ELSE /\ pipeline_stages' =
                  [ k \in 1..Len(pipeline_stages) |->
                      IF pipeline_stages[k].id = stage_id
                      THEN [ fld \in DOMAIN stage |->
                               IF fld \in DOMAIN stage_data THEN stage_data[fld]
                               ELSE stage[fld] ]
                      ELSE pipeline_stages[k] ]
             /\ op' = Op("update_pipeline_stage", stage.fund_id, "", stage_id, 200, << >>)
     /\ edits' = edits + 1
     /\ UNCHANGED << investor_pipeline, user_tasks, investor_fund_assignments,
                     investor_requests, now, investor_profiles, calls, entered, generated >>

\* faulty variant of delete_pipeline_stage: the stage goes even when pipeline
\* entries still reference it
delete_stage_unguarded(stage_id) ==
  LET stage == FindStage(pipeline_stages, stage_id)
  IN /\ IF stage = NoDoc
        THEN /\ op' = Op("delete_pipeline_stage", "", "", stage_id, 404, << >>)
             /\ UNCHANGED pipeline_stages
        ELSE /\ pipeline_stages' = SelectSeq(pipeline_stages, LAMBDA s : s.id # stage_id)
             /\ op' = Op("delete_pipeline_stage", stage.fund_id, "", stage_id, 200, << >>)
     /\ edits' = edits + 1
     /\ UNCHANGED << investor_pipeline, user_tasks, investor_fund_assignments,
                     investor_requests, now, investor_profiles, calls, entered, generated >>

\* DELETE /pipeline-stages/{stage_id}
delete_pipeline_stage(stage_id) ==
  LET stage == FindStage(pipeline_stages, stage_id)
      investors_in_stage == Cardinality({ e \in investor_pipeline : e.stage_id = stage_id })
  IN /\ IF stage = NoDoc
        THEN /\ op' = Op("delete_pipeline_stage", "", "", stage_id, 404, << >>)
             /\ UNCHANGED pipeline_stages
        ELSE IF investors_in_stage > 0
        THEN /\ op' = Op("delete_pipeline_stage", stage.fund_id, "", stage_id, 400, << >>)
             /\ UNCHANGED pipeline_stages
        ELSE /\ pipeline_stages' = SelectSeq(pipeline_stages, LAMBDA s : s.id # stage_id)
             /\ op' = Op("delete_pipeline_stage", stage.fund_id, "", stage_id, 200, << >>)
     /\ edits' = edits + 1
     /\ UNCHANGED << investor_pipeline, user_tasks, investor_fund_assignments,
                     investor_requests, now, investor_profiles, calls, entered, generated >>

\* one turn of the loop of migrate_add_prospects_stage: a fund without a stage
\* named "Prospects" has its stages shifted up by one and gets one at 0
migrate_fund(stages, fund_id) ==
  IF FindStageByName(stages, fund_id, "Prospects") # NoDoc THEN stages
  ELSE Append([ k \in 1..Len(stages) |->
                  IF stages[k].fund_id = fund_id
                  THEN [stages[k] EXCEPT !.position = @ + 1]
                  ELSE stages[k] ],
              PipelineStage(1 + Max({ x.id : x \in Range(stages) }), fund_id,
                            "Prospects", 0, FALSE))

\* startup_event: the migration runs over every fund before any request is served
migrate_add_prospects_stage ==
  /\ pipeline_stages' = migrate_fund(migrate_fund(pipeline_stages, "F1"), "F2")
  /\ op' = Op("startup_event", "", "", None, 0, << >>)
  /\ UNCHANGED << investor_pipeline, user_tasks, investor_fund_assignments,
                  investor_requests, now, investor_profiles, edits, calls, entered, generated >>

(***************************************************************************)
(* Seeding of a fund's board, one step per await: get_pipeline_stages and  *)
(* accept_research_capture both insert DEFAULT_PIPELINE_STAGES one         *)
(* document at a time.                                                     *)
(***************************************************************************)
\* the frame of a seeding request: k is the index of the next default stage
\* to insert, stages the list get_pipeline_stages builds as it goes
SeedFrame(pc, handler, fund_id, k, stages, n) ==
  [pc |-> pc, handler |-> handler, fund_id |-> fund_id, k |-> k,
   stages |-> stages, n |-> n]

\* the investor profile accepting caller c's research capture creates
CapturedInvestor(c) == IF c = "A" THEN "I8" ELSE "I9"

\* PipelineStage(fund_id=fund_id, **DEFAULT_PIPELINE_STAGES[k]) with a fresh id
DefaultStage(stages, fund_id, k) ==
  PipelineStage(1 + Max({ x.id : x \in Range(stages) }), fund_id,
                DEFAULT_PIPELINE_STAGES[k].name, DEFAULT_PIPELINE_STAGES[k].position,
                DEFAULT_PIPELINE_STAGES[k].is_default)

\* db.pipeline_stages.find_one({"fund_id": fund_id, "is_default": True})
FindDefaultStage(stages, fund_id) ==
  LET found == { k \in 1..Len(stages) :
                   stages[k].fund_id = fund_id /\ stages[k].is_default }
  IN IF found = {} THEN NoDoc ELSE stages[Min(found)]

\* stages = await db.pipeline_stages.find({"fund_id": fund_id}).to_list(100)
get_find(c, fund_id) ==
  LET stages == StagesOfFund(pipeline_stages, fund_id)
  IN /\ calls[c].pc = "idle"
     /\ IF stages # << >>
        THEN /\ calls' = [calls EXCEPT ![c] = IdleFrame(calls[c].n + 1)]
             /\ op' = Op("get_pipeline_stages", fund_id, "", None, 200,
                         SortByPosition(stages))
        ELSE /\ calls' = [calls EXCEPT ![c] =
                            SeedFrame("get_insert_one", "get_pipeline_stages",
                                      fund_id, 1, << >>, calls[c].n + 1)]
             /\ op' = op
     /\ UNCHANGED << pipeline_stages, investor_pipeline, user_tasks,
                     investor_fund_assignments, investor_requests, now, investor_profiles, edits,
                     entered, generated >>

\* await db.pipeline_stages.insert_one(stage.model_dump()); stages.append(...)
get_insert_one(c) ==
  LET fr == calls[c]
      stage == DefaultStage(pipeline_stages, fr.fund_id, fr.k)
      stages == Append(fr.stages, stage)
  IN /\ fr.pc = "get_insert_one"
     /\ pipeline_stages' = Append(pipeline_stages, stage)
     /\ IF fr.k < Len(DEFAULT_PIPELINE_STAGES)
        THEN /\ calls' = [calls EXCEPT ![c] = [fr EXCEPT !.k = @ + 1, !.stages = stages]]
             /\ op' = op
        ELSE /\ calls' = [calls EXCEPT ![c] = IdleFrame(fr.n)]
             /\ op' = Op("get_pipeline_stages", fr.fund_id, "", None, 200,
                         SortByPosition(stages))
     /\ UNCHANGED << investor_pipeline, user_tasks, investor_fund_assignments,
                     investor_requests, now, investor_profiles, edits, entered, generated >>

\* the assignment accept_research_capture stores for the investor it created,
\* the update of the capture, and the response
accept_finish(c, fund_id, n, default_stage) ==
  /\ investor_profiles' = investor_profiles \cup
       { InvestorProfile(CapturedInvestor(c), fund_id, None, None) }
  /\ investor_fund_assignments' = investor_fund_assignments \cup
       { [id |-> << CapturedInvestor(c), fund_id, 1 >>,
          investor_id |-> CapturedInvestor(c), fund_id |-> fund_id,
          pipeline_stage_id |-> IF default_stage # NoDoc THEN default_stage.id ELSE None,
          position |-> 0] }
  /\ calls' = [calls EXCEPT ![c] = IdleFrame(n)]
  /\ op' = Op("accept_research_capture", fund_id, CapturedInvestor(c),
              IF default_stage # NoDoc THEN default_stage.id ELSE None, 200, << >>)

\* accept_research_capture up to default_stage = await find_one({is_default: True});
\* the capture of caller c is pending until its investor has been created
accept_find_default(c, fund_id) ==
  LET default_stage == FindDefaultStage(pipeline_stages, fund_id)
      processed == \E a \in investor_fund_assignments : a.investor_id = CapturedInvestor(c)
  IN /\ calls[c].pc = "idle"
     /\ IF processed
        THEN /\ calls' = [calls EXCEPT ![c] = IdleFrame(calls[c].n + 1)]
             /\ op' = Op("accept_research_capture", fund_id, "", None, 400, << >>)
             /\ UNCHANGED << investor_profiles, investor_fund_assignments >>
        ELSE IF default_stage # NoDoc
        THEN accept_finish(c, fund_id, calls[c].n + 1, default_stage)
        ELSE /\ calls' = [calls EXCEPT ![c] =
                            SeedFrame("accept_insert_one", "accept_research_capture",
                                      fund_id, 1, << >>, calls[c].n + 1)]
             /\ op' = op
             /\ UNCHANGED << investor_profiles, investor_fund_assignments >>
     /\ UNCHANGED << pipeline_stages, investor_pipeline, user_tasks,
                     investor_requests, now, edits, entered, generated >>

\* await db.pipeline_stages.insert_one(stage.model_dump()) in the loop
accept_insert_one(c) ==
  LET fr == calls[c]
  IN /\ fr.pc = "accept_insert_one"
     /\ pipeline_stages' = Append(pipeline_stages,
                                  DefaultStage(pipeline_stages, fr.fund_id, fr.k))
     /\ calls' = [calls EXCEPT ![c] =
                    IF fr.k < Len(DEFAULT_PIPELINE_STAGES)
                    THEN [fr EXCEPT !.k = @ + 1]
                    ELSE [fr EXCEPT !.pc = "accept_find_again"]]
     /\ op' = op
     /\ UNCHANGED << investor_pipeline, user_tasks, investor_fund_assignments,
                     investor_requests, now, investor_profiles, edits, entered, generated >>

\* default_stage = await find_one({is_default: True}) after the loop, and the
\* rest of the handler
accept_find_again(c) ==
  LET fr == calls[c]
  IN /\ fr.pc = "accept_find_again"
     /\ accept_finish(c, fr.fund_id, fr.n, FindDefaultStage(pipeline_stages, fr.fund_id))
     /\ UNCHANGED << pipeline_stages, investor_pipeline, user_tasks,
                     investor_requests, now, edits, entered, generated >>

(***************************************************************************)
(* The capital classifier: get_capital_overview, get_dashboard_stats and   *)
(* get_fund_performance.  Amounts are in millions.  The lists of a         *)
(* response are modelled as the sets of pipeline entry ids whose           *)
(* investor_info they hold; the fields derived from the clock              *)
(* (days_remaining, days_since_last_close, alerts) and the plain counts of *)
(* users and funds are left out of the modelled responses.                 *)
(***************************************************************************)
\* fund.get("target_raise"): F1 raises 50, F2 has no target
target_raise_of(fund_id) == IF fund_id = "F1" THEN 50 ELSE None

\* str.lower() on the strings in use; a stage name it leaves alone here
\* keeps a letter that tells it from "declined"
lower(string) ==
  CASE string \in {"Declined", "DECLINED"} -> "declined"
    [] string = "Family Office" -> "family office"
    [] string = "Institution" -> "institution"
    [] string = "UAE" -> "uae"
    [] string = "Egypt" -> "egypt"
    [] string = "GCC" -> "gcc"
    [] string = "France" -> "france"
    [] string = "Saudi Arabia" -> "saudi arabia"
    [] string = "FinTech" -> "fintech"
    [] string = "Energy" -> "energy"
    [] string = "Female" -> "female"
    [] string = "Male" -> "male"
    [] string = "Diverse" -> "diverse"
    [] OTHER -> string

deployed_stage_names == {"Money Transfer", "Transfer Date"}
final_stage_names == {"Signing Contract", "Signing Subscription", "Letter for Capital Call"}
excluded_stage_names == {"declined"}

\* the sum a for loop accumulates over the documents S
RECURSIVE Sum(_, _)
Sum(amount, S) ==
  IF S = {} THEN 0
  ELSE LET x == CHOOSE y \in S : TRUE
       IN amount[x] + Sum(amount, S \ {x})

\* profiles_map = {p["id"]: p for p in investor_profiles.find({"fund_id": fund_id})}
profiles_map(fund_id) == { p \in investor_profiles : p.fund_id = fund_id }

\* profiles_map.get(investor_id)
profile_of(fund_id, investor_id) ==
  LET found == { p \in profiles_map(fund_id) : p.id = investor_id }
  IN IF found = {} THEN NoDoc ELSE CHOOSE p \in found : TRUE

\* pipeline_entries whose profile is found: the others hit `continue`
looked_up_entries(fund_id) ==
  { e \in investor_pipeline :
      e.fund_id = fund_id /\ profile_of(fund_id, e.investor_id) # NoDoc }

\* stages = pipeline_stages.find({"fund_id": fund_id})
stages_of(fund_id) == { x \in Range(pipeline_stages) : x.fund_id = fund_id }

\* float(x) if x else 0.0
to_float(x) == IF x = None \/ x = 0 THEN 0 ELSE x

\* round(numerator / denominator * 100, 1), in tenths of a percent
round_percent(numerator, denominator) ==
  (numerator * 2000 + denominator) \div (2 * denominator)

\* the if / elif / else that sorts a stage name in get_capital_overview
overview_stage_category(stage_name) ==
  IF stage_name \in {"Money Transfer", "Transfer Date"} THEN "deployed"
  ELSE IF lower(stage_name) = "declined" THEN "excluded"
  ELSE "potential"

overview_deployed_stage_ids(fund_id) ==
  { x.id : x \in { y \in stages_of(fund_id) : overview_stage_category(y.name) = "deployed" } }
overview_excluded_stage_ids(fund_id) ==
  { x.id : x \in { y \in stages_of(fund_id) : overview_stage_category(y.name) = "excluded" } }
overview_potential_stage_ids(fund_id) ==
  { x.id : x \in { y \in stages_of(fund_id) : overview_stage_category(y.name) = "potential" } }

\* the response of get_capital_overview for an existing fund
capital_overview(fund_id) ==
  LET entries == looked_up_entries(fund_id)
      in_deployed == { e \in entries : e.stage_id \in overview_deployed_stage_ids(fund_id) }
      in_potential == { e \in entries : e.stage_id \notin overview_deployed_stage_ids(fund_id)
                                        /\ e.stage_id \in overview_potential_stage_ids(fund_id) }
      investment_size == [e \in entries |-> profile_of(fund_id, e.investor_id).investment_size]
      expected_ticket == [e \in entries |-> profile_of(fund_id, e.investor_id).expected_ticket_amount]
      deployed_investors == { e \in in_deployed : investment_size[e] # None /\ investment_size[e] > 0 }
      potential_investors == { e \in in_potential : expected_ticket[e] # None /\ expected_ticket[e] > 0 }
      deployed_capital == Sum(investment_size, deployed_investors)
      target_raise == IF target_raise_of(fund_id) \in {None, 0} THEN 0 ELSE target_raise_of(fund_id)
  IN [deployed_capital |-> deployed_capital,
      deployed_investors |-> { e.id : e \in deployed_investors },
      missing_investment_size_investors |-> { e.id : e \in in_deployed \ deployed_investors },
      potential_capital |-> Sum(expected_ticket, potential_investors),
      potential_investors |-> { e.id : e \in potential_investors },
      missing_expected_ticket_investors |-> { e.id : e \in in_potential \ potential_investors },
      target_raise |-> target_raise,
      target_reached |-> IF target_raise > 0 THEN deployed_capital >= target_raise ELSE FALSE,
      progress_percentage |-> IF target_raise > 0
                              THEN round_percent(deployed_capital, target_raise) ELSE 0]

\* faulty variant of get_capital_overview: stores 0 in the profiles of the
\* fund that have no investment_size before answering
overview_normalising_profiles(fund_id) ==
  /\ investor_profiles' =
       { IF p.fund_id = fund_id /\ p.investment_size = None
         THEN [p EXCEPT !.investment_size = 0] ELSE p : p \in investor_profiles }
  /\ op' = IF fund_id \notin FundIds
           THEN Op("get_capital_overview", fund_id, "", None, 404, << >>)
           ELSE Op("get_capital_overview", fund_id, "", None, 200, capital_overview(fund_id))
  /\ UNCHANGED << pipeline_stages, investor_pipeline, user_tasks,
                  investor_fund_assignments, investor_requests, now, edits, calls,
                  entered, generated >>

\* GET /funds/{fund_id}/capital-overview
get_capital_overview(fund_id) ==
  /\ op' = IF fund_id \notin FundIds
           THEN Op("get_capital_overview", fund_id, "", None, 404, << >>)
           ELSE Op("get_capital_overview", fund_id, "", None, 200, capital_overview(fund_id))
  /\ UNCHANGED << investor_profiles, pipeline_stages, investor_pipeline, user_tasks,
                  investor_fund_assignments, investor_requests, now, edits, calls,
                  entered, generated >>

\* the if / elif chain that sorts a stage name in get_dashboard_stats and
\* get_fund_performance (the latter keeps no set for the last branch)
stage_category(stage_name) ==
  IF stage_name \in deployed_stage_names THEN "deployed"
  ELSE IF stage_name \in final_stage_names THEN "final"
  ELSE IF lower(stage_name) \in excluded_stage_names THEN "excluded"
  ELSE "potential"

deployed_stage_ids(fund_id) ==
  { x.id : x \in { y \in stages_of(fund_id) : stage_category(y.name) = "deployed" } }
final_stage_ids(fund_id) ==
  { x.id : x \in { y \in stages_of(fund_id) : stage_category(y.name) = "final" } }
excluded_stage_ids(fund_id) ==
  { x.id : x \in { y \in stages_of(fund_id) : stage_category(y.name) = "excluded" } }
potential_stage_ids(fund_id) ==
  { x.id : x \in { y \in stages_of(fund_id) : stage_category(y.name) = "potential" } }

\* what one pipeline entry adds to each total of get_dashboard_stats
investment_size_of(fund_id, e) == to_float(profile_of(fund_id, e.investor_id).investment_size)
expected_ticket_of(fund_id, e) == to_float(profile_of(fund_id, e.investor_id).expected_ticket_amount)

ticket_or_size(fund_id, e) ==
  IF expected_ticket_of(fund_id, e) > 0 THEN expected_ticket_of(fund_id, e)
  ELSE IF investment_size_of(fund_id, e) > 0 THEN investment_size_of(fund_id, e)
  ELSE 0

deployed_of_fund(fund_id) ==
  LET entries == { e \in looked_up_entries(fund_id) : e.stage_id \in deployed_stage_ids(fund_id) }
  IN Sum([e \in entries |-> IF investment_size_of(fund_id, e) > 0
                            THEN investment_size_of(fund_id, e) ELSE 0], entries)

final_of_fund(fund_id) ==
  LET entries == { e \in looked_up_entries(fund_id) :
                     /\ e.stage_id \notin deployed_stage_ids(fund_id)
                     /\ e.stage_id \in final_stage_ids(fund_id) }
  IN Sum([e \in entries |-> ticket_or_size(fund_id, e)], entries)

potential_of_fund(fund_id) ==
  LET entries == { e \in looked_up_entries(fund_id) :
                     /\ e.stage_id \notin deployed_stage_ids(fund_id) \cup final_stage_ids(fund_id)
                     /\ e.stage_id \in potential_stage_ids(fund_id) }
  IN Sum([e \in entries |-> ticket_or_size(fund_id, e)], entries)

\* the response of get_dashboard_stats: the totals over all funds
dashboard_stats ==
  [total_deployed_capital |-> Sum([f \in FundIds |-> deployed_of_fund(f)], FundIds),
   total_potential_capital |-> Sum([f \in FundIds |-> potential_of_fund(f)], FundIds),
   capital_in_final_stages |-> Sum([f \in FundIds |-> final_of_fund(f)], FundIds)]

\* GET /dashboard/stats
get_dashboard_stats ==
  /\ op' = Op("get_dashboard_stats", "", "", None, 200, dashboard_stats)
  /\ UNCHANGED << investor_profiles, pipeline_stages, investor_pipeline, user_tasks,
                  investor_fund_assignments, investor_requests, now, edits, calls,
                  entered, generated >>

\* one element of the response of get_fund_performance
fund_performance(fund_id) ==
  LET entries == looked_up_entries(fund_id)
      target_capital == IF target_raise_of(fund_id) \in {None, 0} THEN 0
                        ELSE target_raise_of(fund_id)
      deployed_capital == deployed_of_fund(fund_id)
  IN [fund_id |-> fund_id,
      target_capital |-> target_capital,
      deployed_capital |-> deployed_capital,
      capital_in_final_stages |-> final_of_fund(fund_id),
      percent_of_goal |-> IF target_capital > 0
                          THEN round_percent(deployed_capital, target_capital) ELSE 0,
      active_investors |-> Cardinality(entries),
      investors_in_deployed |->
        Cardinality({ e \in entries : e.stage_id \in deployed_stage_ids(fund_id) }),
      investors_in_final |->
        Cardinality({ e \in entries : /\ e.stage_id \notin deployed_stage_ids(fund_id)
                                      /\ e.stage_id \in final_stage_ids(fund_id) })]

\* GET /dashboard/fund-performance: one element per fund
get_fund_performance ==
  /\ op' = Op("get_fund_performance", "", "", None, 200,
              [f \in FundIds |-> fund_performance(f)])
  /\ UNCHANGED << investor_profiles, pipeline_stages, investor_pipeline, user_tasks,
                  investor_fund_assignments, investor_requests, now, edits, calls,
                  entered, generated >>

(***************************************************************************)
(* Investor persona helpers: _score_rule_based.  A string field that is    *)
(* None is modelled as "": the function reads every string through         *)
(* `x or ""` or through its truth value, which treat the two alike.        *)
(***************************************************************************)
GCC == {"saudi arabia", "uae", "united arab emirates", "qatar", "bahrain", "oman", "kuwait"}

\* t in s for the strings in use: the empty string is in every string
is_substring(t, s) == t = "" \/ t = s \/ << t, s >> \in { << "tech", "fintech" >> }

\* round(numerator / denominator * 100): Python rounds halves to even
round_score(numerator, denominator) ==
  LET q == (numerator * 100) \div denominator
      r == (numerator * 100) % denominator
  IN IF 2 * r > denominator THEN q + 1
     ELSE IF 2 * r < denominator THEN q
     ELSE IF q % 2 = 0 THEN q ELSE q + 1

\* the weight each `if persona.get(...)` block adds to total_w: 0 when the
\* attribute is not set
weight_of(persona, field) ==
  CASE field = "Investor type" -> IF persona.target_investor_type # "" THEN 35 ELSE 0
    [] field = "Nationality" -> IF persona.target_nationalities # << >> THEN 25 ELSE 0
    [] field = "Sector" -> IF persona.target_sectors # << >> THEN 20 ELSE 0
    [] field = "Gender" -> IF persona.target_gender # "" /\ lower(persona.target_gender) # "diverse"
                           THEN 10 ELSE 0
    [] field = "Age group" -> IF persona.target_age_min # None THEN 10 ELSE 0

\* faulty variant of is_hit: a Gulf nationality hits whatever the targets are
is_hit_any_gulf_state(investor, persona, field) ==
  CASE field = "Investor type" ->
         lower(investor.investor_type) = lower(persona.target_investor_type)
    [] field = "Nationality" ->
         LET inv_nat == lower(investor.nationality)
             targets == { lower(n) : n \in Range(persona.target_nationalities) }
         IN inv_nat \in targets \/ inv_nat \in GCC
    [] field = "Sector" ->
         LET inv_s == lower(investor.sector)
             targets == { lower(x) : x \in Range(persona.target_sectors) }
         IN \E t \in targets : t # "" /\ (is_substring(t, inv_s) \/ is_substring(inv_s, t))
    [] field = "Gender" -> lower(investor.gender) = lower(persona.target_gender)
    [] field = "Age group" -> investor.age # None /\ investor.age >= persona.target_age_min

\* the test each block makes before it adds to earned_w
is_hit(investor, persona, field) ==
  CASE field = "Investor type" ->
         lower(investor.investor_type) = lower(persona.target_investor_type)
    [] field = "Nationality" ->
         LET inv_nat == lower(investor.nationality)
             targets == { lower(n) : n \in Range(persona.target_nationalities) }
         IN inv_nat \in targets \/ ("gcc" \in targets /\ inv_nat \in GCC)
    [] field = "Sector" ->
         LET inv_s == lower(investor.sector)
             targets == { lower(x) : x \in Range(persona.target_sectors) }
         IN \E t \in targets : t # "" /\ (is_substring(t, inv_s) \/ is_substring(inv_s, t))
    [] field = "Gender" -> lower(investor.gender) = lower(persona.target_gender)
    [] field = "Age group" -> investor.age # None /\ investor.age >= persona.target_age_min

\* the blocks in the order the function runs them
score_fields == << "Investor type", "Nationality", "Sector", "Gender", "Age group" >>

\* the fields of the blocks that ran and whose test gave `hit`, in order
RECURSIVE fields_where(_, _, _, _)
fields_where(investor, persona, hit, k) ==
  IF k > Len(score_fields) THEN << >>
  ELSE (IF weight_of(persona, score_fields[k]) > 0
           /\ is_hit(investor, persona, score_fields[k]) = hit
        THEN << score_fields[k] >> ELSE << >>)
       \o fields_where(investor, persona, hit, k + 1)

\* faulty variant of _score_rule_based: the score is earned_w itself
score_unnormalised(investor, persona) ==
  LET matched == fields_where(investor, persona, TRUE, 1)
  IN [score |-> Sum([f \in Range(matched) |-> weight_of(persona, f)], Range(matched)),
      matched_fields |-> matched,
      unmatched_fields |-> fields_where(investor, persona, FALSE, 1)]

\* _score_rule_based(investor, persona)
score_rule_based(investor, persona) ==
  LET matched == fields_where(investor, persona, TRUE, 1)
      total_w == Sum([f \in Range(score_fields) |-> weight_of(persona, f)], Range(score_fields))
      earned_w == Sum([f \in Range(matched) |-> weight_of(persona, f)], Range(matched))
  IN [score |-> IF total_w > 0 THEN round_score(earned_w, total_w) ELSE 0,
      matched_fields |-> matched,
      unmatched_fields |-> fields_where(investor, persona, FALSE, 1)]

\* a call of the helper on the pair that is waiting to be scored
call_score_rule_based ==
  /\ op.name = "persona_match"
  /\ op' = Op("_score_rule_based", "", "", None, 0,
              [investor |-> op.result.investor, persona |-> op.result.persona,
               match |-> score_rule_based(op.result.investor, op.result.persona)])
  /\ UNCHANGED << investor_profiles, pipeline_stages, investor_pipeline, user_tasks,
                  investor_fund_assignments, investor_requests, now, edits, calls,
                  entered, generated >>

(***************************************************************************)
(* Persona matching: match_investor_to_personas and _score_with_ai.  The   *)
(* assistant is the environment: it is unconfigured, its call raises, its  *)
(* text (after the markdown fence is stripped) does not parse, or it       *)
(* parses to a JSON value.  A JSON value is [type, items]: items is what   *)
(* `for r in ai_results` visits (the elements of an array, the keys of an  *)
(* object, the characters of a string).  A visited item is [type,          *)
(* has_persona_id, persona_id, score] and a score [type, n], n being 0     *)
(* unless the type is "number".                                            *)
(***************************************************************************)
JsonScore(type, n) == [type |-> type, n |-> n]

\* db.investor_personas.find({"fund_id": fund_id}): F1 has two personas
personas_of(fund_id) ==
  IF fund_id # "F1" THEN << >>
  ELSE << [id |-> "P1", target_investor_type |-> "Family Office",
           target_nationalities |-> << "Saudi Arabia" >>, target_sectors |-> << >>,
           target_gender |-> "", target_age_min |-> None],
          [id |-> "P2", target_investor_type |-> "",
           target_nationalities |-> << "GCC" >>, target_sectors |-> << "tech" >>,
           target_gender |-> "Diverse", target_age_min |-> 40] >>

\* db.investor_profiles.find_one({"id": investor_id}): the fields the scorer reads
investor_for_match(investor_id) ==
  IF investor_id \notin InvestorIds THEN NoDoc
  ELSE IF investor_id = "I1"
  THEN [id |-> << investor_id >>, investor_type |-> "Family Office", nationality |-> "UAE",
        sector |-> "FinTech", gender |-> "Female", age |-> 50]
  ELSE [id |-> << investor_id >>, investor_type |-> "Institution", nationality |-> "Egypt",
        sector |-> "", gender |-> "Male", age |-> None]

\* sorted(matches, key=lambda x: x["score"], reverse=True) raises TypeError
\* when it has to compare scores that are not both numbers or both strings
is_sortable(matches) ==
  \/ Len(matches) < 2
  \/ \A k \in 1..Len(matches) : matches[k].score.type = "number"
  \/ \A k \in 1..Len(matches) : matches[k].score.type = "string"

\* sorted(..., reverse=True): descending, equal scores in their given order
RECURSIVE sorted_by_score(_)
sorted_by_score(matches) ==
  IF matches = << >> THEN << >>
  ELSE LET x == matches[Len(matches)]
           rest == sorted_by_score(SubSeq(matches, 1, Len(matches) - 1))
           ahead == { k \in 1..Len(rest) : rest[k].score.n >= x.score.n }
           cut == IF ahead = {} THEN 0 ELSE CHOOSE k \in ahead : \A j \in ahead : j <= k
       IN SubSeq(rest, 1, cut) \o << x >> \o SubSeq(rest, cut + 1, Len(rest))

\* the rule-based fallback: one match per persona
rule_based_matches(investor, personas) ==
  [k \in 1..Len(personas) |->
     LET result == score_rule_based(investor, personas[k])
     IN [persona_id |-> personas[k].id,
         score |-> JsonScore("number", result.score),
         matched_fields |-> result.matched_fields,
         unmatched_fields |-> result.unmatched_fields]]

\* the list comprehension over ai_results; r["persona_id"] needs a dict with
\* that key, r.get("score", 0) fills a missing score in
ai_comprehension_raises(ai_results) ==
  \/ ai_results.type \in {"null", "number"}
  \/ \E k \in 1..Len(ai_results.items) :
       ai_results.items[k].type # "object" \/ ~ai_results.items[k].has_persona_id

ai_matches(ai_results) ==
  [k \in 1..Len(ai_results.items) |->
     LET r == ai_results.items[k]
     IN [persona_id |-> r.persona_id,
         score |-> IF r.score.type = "absent" THEN JsonScore("number", 0) ELSE r.score,
         matched_fields |-> << >>,
         unmatched_fields |-> << >>]]

\* the response of match_investor_to_personas for an investor that exists
match_response(investor, personas, assistant) ==
  LET ai_failed == \/ assistant.outcome \in {"raises", "unparseable"}
                   \/ ai_comprehension_raises(assistant.value)
                   \/ ~is_sortable(ai_matches(assistant.value))
  IN IF personas = << >> THEN [matches |-> << >>, method |-> "none"]
     ELSE IF assistant.outcome # "unconfigured" /\ ~ai_failed
     THEN [matches |-> sorted_by_score(ai_matches(assistant.value)), method |-> "ai"]
     ELSE [matches |-> sorted_by_score(rule_based_matches(investor, personas)),
           method |-> "rule_based"]

\* POST /funds/{fund_id}/personas/match, on the request that is waiting
match_investor_to_personas ==
  /\ op.name = "match_request"
  /\ op' = IF investor_for_match(op.investor) = NoDoc
           THEN Op("match_investor_to_personas", op.fund, op.investor, None, 404, op.result)
           ELSE Op("match_investor_to_personas", op.fund, op.investor, None, 200,
                   [assistant |-> op.result.assistant,
                    response |-> match_response(investor_for_match(op.investor),
                                                personas_of(op.fund), op.result.assistant)])
  /\ UNCHANGED << investor_profiles, pipeline_stages, investor_pipeline, user_tasks,
                  investor_fund_assignments, investor_requests, now, edits, calls,
                  entered, generated >>

(***************************************************************************)
(* Inputs offered to the handlers.                                         *)
(***************************************************************************)
Positions == 0..MaxPosition

\* the offered stages of the funds F, and the unknown stage ids
StageIdsNamed(F, names) ==
  { s.id : s \in { x \in Range(pipeline_stages) :
                      x.fund_id \in F /\ x.name \in names } }

StageInputs(F) == StageIdsNamed(F, OfferedStageNames) \cup UnknownStageIds

\* ids of the pipeline entries, and one id no entry carries
EntryIdInputs ==
  { e.id : e \in investor_pipeline } \cup { << "", "", 0 >> }

(***************************************************************************)
(* Initial states.                                                         *)
(***************************************************************************)
\* both funds after their first GET /funds/{fund_id}/pipeline-stages
SeededStages == SeedStages(SeedStages(<< >>, "F1"), "F2")

InitRest ==
  /\ investor_profiles = { InvestorProfile(i, LegacyFund(i), None, None) : i \in InvestorIds }
  /\ investor_pipeline = {}
  /\ user_tasks = {}
  /\ investor_fund_assignments = {}
  /\ investor_requests = {}
  /\ now = 0
  /\ edits = 0
  /\ calls = [c \in Callers |-> IdleFrame(0)]
  /\ op = NoOp
  /\ entered = {}
  /\ generated = << >>

Init ==
  /\ pipeline_stages = SeededStages
  /\ InitRest

(***************************************************************************)
(* Spec: the pipeline ledger, one request at a time.                       *)
(***************************************************************************)
LedgerFunds == {"F1"}
LedgerInvestors == {"I1"}

Next ==
  \/ Tick
  \/ \E f \in LedgerFunds, i \in LedgerInvestors, pos \in Positions :
       \E s \in StageInputs({f}) : add_investor_to_pipeline(f, i, s, pos)
  \/ \E f \in LedgerFunds, i \in LedgerInvestors, pos \in Positions :
       \E s \in StageInputs({f}) : move_investor_in_pipeline(i, f, s, pos)
  \/ \E id \in EntryIdInputs, s \in StageInputs(LedgerFunds) \cup {None}, pos \in {MaxPosition, None} :
       update_investor_pipeline(id, s, pos)
  \/ \E id \in EntryIdInputs : remove_investor_from_pipeline(id)
  \/ \E i \in LedgerInvestors \cup {"I0"} : create_investor_note(i)

Spec == Init /\ [][Next]_vars

(***************************************************************************)
(* SpecMoves: assign_or_move and remove only (POST /investor-pipeline,     *)
(* PUT /investor-pipeline/move, DELETE /investor-pipeline).                *)
(***************************************************************************)
NextMoves ==
  \/ Tick
  \/ \E f \in LedgerFunds, i \in LedgerInvestors, pos \in Positions :
       \E s \in StageInputs({f}) : add_investor_to_pipeline(f, i, s, pos)
  \/ \E f \in LedgerFunds, i \in LedgerInvestors, pos \in Positions :
       \E s \in StageInputs({f}) : move_investor_in_pipeline(i, f, s, pos)
  \/ \E id \in EntryIdInputs : remove_investor_from_pipeline(id)

SpecMoves == Init /\ [][NextMoves]_vars

(***************************************************************************)
(* SpecAssign: every handler that creates or deletes pipeline entries.     *)
(***************************************************************************)
\* the fund_assignments lists offered: up to MaxFundAssignments items
FundAssignmentInputs(F) ==
  LET item == { [fund_id |-> f, initial_stage_id |-> None] : f \in F }
  IN UNION { [1..n -> item] : n \in 1..MaxFundAssignments }

\* ids of the requests, and one id no request carries
RequestIdInputs ==
  { r.id : r \in investor_requests } \cup { << "", "", 0 >> }

\* the stage the board offers when an investor is first dropped on it
DefaultStageInputs(F) ==
  { s.id : s \in { x \in Range(pipeline_stages) : x.fund_id \in F /\ x.is_default } }

NextAssign ==
  \/ \E f \in FundIds, i \in LedgerInvestors :
       \E s \in DefaultStageInputs({f}) : add_investor_to_pipeline(f, i, s, 0)
  \/ \E f \in FundIds, i \in LedgerInvestors :
       \E s \in DefaultStageInputs({f}) : move_investor_in_pipeline(i, f, s, 0)
  \/ \E id \in EntryIdInputs : remove_investor_from_pipeline(id)
  \/ \E i \in LedgerInvestors \cup {"I0"}, fas \in FundAssignmentInputs(FundIds \cup {"F0"}) :
       create_investor_fund_assignments(i, fas)
  \/ \E i \in LedgerInvestors, f \in FundIds :
       /\ Cardinality(investor_requests) < MaxRequests
       /\ create_investor_request(i, f)
  \/ \E id \in RequestIdInputs, s \in DefaultStageInputs({"F2"}) \cup {None} :
       approve_investor_request(id, s)
  \/ \E id \in RequestIdInputs : deny_investor_request(id)

SpecAssign == Init /\ [][NextAssign]_vars

(***************************************************************************)
(* SpecTasks: stage moves interleaved with edits and deletions of tasks.   *)
(***************************************************************************)
\* the stage with the shortest checklist, and a stage without one
ChecklistStageNames == {"Signing Subscription"}

\* ids of the stored tasks, and one id no task carries
TaskIdInputs == { t.id : t \in user_tasks } \cup { << "", 0, 0, 0 >> }

\* bodies of PUT /user-tasks/{task_id}: only the listed field is not None
TaskUpdateInputs ==
  { [is_auto_generated |-> FALSE], [status |-> "completed"] }

NextTasks ==
  \/ \E f \in LedgerFunds, i \in LedgerInvestors :
       \E s \in StageIdsNamed({f}, ChecklistStageNames) \cup UnknownStageIds :
         move_investor_in_pipeline(i, f, s, 0)
  \/ \E id \in TaskIdInputs :
       edits < MaxTaskEdits /\ delete_user_task(id)
  \/ \E id \in TaskIdInputs, body \in TaskUpdateInputs :
       edits < MaxTaskEdits /\ update_user_task(id, body)

SpecTasks == Init /\ [][NextTasks]_vars

(***************************************************************************)
(* SpecRace: two callers whose requests interleave at every await.         *)
(***************************************************************************)
NextRace ==
  \/ \E c \in Callers, f \in LedgerFunds, i \in LedgerInvestors :
       \E s \in StageIdsNamed({f}, ChecklistStageNames) \cup UnknownStageIds :
         /\ calls[c].n < MaxCallsPerCaller
         /\ add_find_one(c, f, i, s, 0)
  \/ \E c \in Callers : add_update_one(c)
  \/ \E c \in Callers : add_insert_one(c)
  \/ \E c \in Callers, f \in LedgerFunds, i \in LedgerInvestors :
       \E s \in StageIdsNamed({f}, ChecklistStageNames) \cup UnknownStageIds :
         /\ calls[c].n < MaxCallsPerCaller
         /\ move_find_one(c, i, f, s, 0)
  \/ \E c \in Callers : move_insert_one(c)
  \/ \E c \in Callers : move_update_one(c)
  \/ \E c \in Callers : find_stage_doc(c)
  \/ \E c \in Callers : count_documents(c)
  \/ \E c \in Callers : insert_many(c)
  \/ \E c \in Callers : find_updated(c)

SpecRace == Init /\ [][NextRace]_vars

\* the same with PUT /investor-pipeline/move as the only request
NextRaceMoves ==
  \/ \E c \in Callers, f \in LedgerFunds, i \in LedgerInvestors :
       \E s \in StageIdsNamed({f}, ChecklistStageNames) \cup UnknownStageIds :
         /\ calls[c].n < MaxCallsPerCaller
         /\ move_find_one(c, i, f, s, 0)
  \/ \E c \in Callers : move_insert_one(c)
  \/ \E c \in Callers : move_update_one(c)
  \/ \E c \in Callers : find_stage_doc(c)
  \/ \E c \in Callers : count_documents(c)
  \/ \E c \in Callers : insert_many(c)
  \/ \E c \in Callers : find_updated(c)

SpecRaceMoves == Init /\ [][NextRaceMoves]_vars

(***************************************************************************)
(* SpecStages: the stage registry from an empty collection, with the       *)
(* board in use on the first fund.                                         *)
(***************************************************************************)
InitStages ==
  /\ pipeline_stages = << >>
  /\ InitRest

\* name of the stages a user adds to a board
CustomStageNames == {"Custom"}

\* the stages offered to the edits: by name, and one id no stage carries
StageIdInputs ==
  StageIdsNamed(FundIds, OfferedStageNames \cup CustomStageNames) \cup UnknownStageIds

\* bodies of PUT /pipeline-stages/{stage_id}: only the listed field is not None
StageUpdateInputs == { [position |-> 5], [is_default |-> TRUE] }

NextStages ==
  \/ \E f \in FundIds : get_pipeline_stages(f)
  \/ migrate_add_prospects_stage
  \/ \E f \in FundIds, g \in FundIds, name \in CustomStageNames :
       /\ edits < MaxStageEdits
       /\ create_pipeline_stage(f, [fund_id |-> g, name |-> name])
  \/ \E id \in StageIdInputs, body \in StageUpdateInputs :
       edits < MaxStageEdits /\ update_pipeline_stage(id, body)
  \/ \E id \in StageIdInputs :
       edits < MaxStageEdits /\ delete_pipeline_stage(id)
  \/ \E f \in LedgerFunds, i \in LedgerInvestors :
       \E s \in StageIdsNamed({f}, {"Prospects"}) :
         move_investor_in_pipeline(i, f, s, 0)

SpecStages == InitStages /\ [][NextStages]_vars

(***************************************************************************)
(* SpecSeedRace: two callers opening the board of the same fund.           *)
(***************************************************************************)
NextSeedRace ==
  \/ \E c \in Callers, f \in LedgerFunds :
       calls[c].n < MaxCallsPerCaller /\ get_find(c, f)
  \/ \E c \in Callers :
       Len(pipeline_stages) < MaxRacingStages /\ get_insert_one(c)
  \/ \E c \in Callers, f \in LedgerFunds :
       calls[c].n < MaxCallsPerCaller /\ accept_find_default(c, f)
  \/ \E c \in Callers :
       Len(pipeline_stages) < MaxRacingStages /\ accept_insert_one(c)
  \/ \E c \in Callers : accept_find_again(c)

SpecSeedRace == InitStages /\ [][NextSeedRace]_vars

(***************************************************************************)
(* SpecCapital: the capital classifier over boards filled by the fund      *)
(* assignment handler.  The monetary fields of the profiles are the        *)
(* inputs, drawn at the start; create_investor_fund_assignments attaches   *)
(* investors (I2's profile carries the legacy fund F2) without generating  *)
(* tasks.                                                                  *)
(***************************************************************************)
\* monetary fields offered for the one profile that varies: missing, zero, positive
InvestmentSizes == {None, 0, 20}
ExpectedTickets == {None, 0, 4}

ProfileBooks ==
  { { InvestorProfile("I1", LegacyFund("I1"), size, ticket),
      InvestorProfile("I2", LegacyFund("I2"), 2, None),
      InvestorProfile("I3", LegacyFund("I3"), None, 3),
      InvestorProfile("I4", LegacyFund("I4"), None, 1) } :
    size \in InvestmentSizes, ticket \in ExpectedTickets }

InitCapital ==
  /\ pipeline_stages = SeededStages
  /\ investor_profiles \in ProfileBooks
  /\ investor_pipeline = {}
  /\ user_tasks = {}
  /\ investor_fund_assignments = {}
  /\ investor_requests = {}
  /\ now = 0
  /\ edits = 0
  /\ calls = [c \in Callers |-> IdleFrame(0)]
  /\ op = NoOp
  /\ entered = {}
  /\ generated = << >>

\* the custom stage a manager adds for investors who said no
DeclinedStageName == "DECLINED"

\* one stage of each category
CapitalStageNames == {"Money Transfer", "Signing Contract", "Prospects", DeclinedStageName}

\* the stages offered for an attachment: I1 visits every category, the
\* others the stage of the worked example they stand for
CapitalStageInputs(investor_id, fund_id) ==
  StageIdsNamed({fund_id},
    CASE investor_id = "I1" /\ fund_id = "F1" -> CapitalStageNames
      [] investor_id = "I3" /\ fund_id = "F1" -> {"Signing Contract", DeclinedStageName}
      [] investor_id = "I4" /\ fund_id = "F1" -> {"Prospects"}
      [] OTHER -> {"Money Transfer"})

NextCapital ==
  \/ /\ StageIdsNamed({"F1"}, {DeclinedStageName}) = {}
     /\ create_pipeline_stage("F1", [fund_id |-> "F1", name |-> DeclinedStageName])
  \/ \E i \in InvestorIds, f \in FundIds :
       /\ f = "F2" => i = "I2"
       /\ \E s \in CapitalStageInputs(i, f) :
            create_investor_fund_assignments(i, << [fund_id |-> f, initial_stage_id |-> s] >>)
  \/ \E f \in FundIds \cup {"F0"} : get_capital_overview(f)
  \/ get_dashboard_stats
  \/ get_fund_performance

SpecCapital == InitCapital /\ [][NextCapital]_vars

(***************************************************************************)
(* SpecScore: _score_rule_based on every investor and persona of a small   *)
(* vocabulary, the pair being drawn at the start.                          *)
(***************************************************************************)
ScoredInvestors ==
  [investor_type : {"", "Family Office", "Institution"},
   nationality : {"", "UAE", "Egypt"},
   sector : {"", "FinTech", "Energy"},
   gender : {"", "Female", "Male"},
   age : {None, 30, 50}]

Personas ==
  [target_investor_type : {"", "family office", "Family Office"},
   target_nationalities : {<< >>, << "GCC" >>, << "egypt", "France" >>, << "Saudi Arabia" >>},
   target_sectors : {<< >>, << "tech" >>, << "" >>},
   target_gender : {"", "female", "Diverse"},
   target_age_min : {None, 0, 40}]

InitScore ==
  /\ pipeline_stages = << >>
  /\ investor_profiles = {}
  /\ investor_pipeline = {}
  /\ user_tasks = {}
  /\ investor_fund_assignments = {}
  /\ investor_requests = {}
  /\ now = 0
  /\ edits = 0
  /\ calls = [c \in Callers |-> IdleFrame(0)]
  /\ \E investor \in ScoredInvestors, persona \in Personas :
       op = Op("persona_match", "", "", None, 0, [investor |-> investor, persona |-> persona])
  /\ entered = {}
  /\ generated = << >>

NextScore == call_score_rule_based

SpecScore == InitScore /\ [][NextScore]_vars

(***************************************************************************)
(* SpecMatch: match_investor_to_personas against every answer of the       *)
(* assistant, the request and the answer being drawn at the start.         *)
(***************************************************************************)
\* scores an answer may carry: none, in range, out of range, a word, null
AnswerScores ==
  { JsonScore("absent", 0), JsonScore("number", 85), JsonScore("number", 150),
    JsonScore("number", -5), JsonScore("string", 0), JsonScore("null", 0) }

\* what an array, an object or a string may hold
AnswerItems ==
  { [type |-> "string", has_persona_id |-> FALSE, persona_id |-> "",
     score |-> JsonScore("absent", 0)] }
  \cup [type : {"object"}, has_persona_id : {FALSE}, persona_id : {""},
        score : {JsonScore("number", 85)}]
  \cup [type : {"object"}, has_persona_id : {TRUE}, persona_id : {"P1", "P2"},
        score : AnswerScores]

\* longest answer drawn
MaxAnswerItems == 2

JsonValues ==
  { [type |-> t, items |-> << >>] : t \in {"null", "number", "string", "object"} }
  \cup { [type |-> t, items |-> << AnswerItems_string >>] :
           t \in {"string", "object"},
           AnswerItems_string \in { x \in AnswerItems : x.type = "string" } }
  \cup { [type |-> "array", items |-> items] :
           items \in UNION { [1..n -> AnswerItems] : n \in 0..MaxAnswerItems } }

AssistantAnswers ==
  { [outcome |-> o, value |-> [type |-> "null", items |-> << >>]] :
      o \in {"unconfigured", "raises", "unparseable"} }
  \cup { [outcome |-> "parsed", value |-> v] : v \in JsonValues }

InitMatch ==
  /\ pipeline_stages = << >>
  /\ investor_profiles = {}
  /\ investor_pipeline = {}
  /\ user_tasks = {}
  /\ investor_fund_assignments = {}
  /\ investor_requests = {}
  /\ now = 0
  /\ edits = 0
  /\ calls = [c \in Callers |-> IdleFrame(0)]
  /\ \E fund_id \in FundIds, investor_id \in {"I1", "I2", "I0"},
        assistant \in AssistantAnswers :
       op = Op("match_request", fund_id, investor_id, None, 0, [assistant |-> assistant])
  /\ entered = {}
  /\ generated = << >>

NextMatch == match_investor_to_personas

SpecMatch == InitMatch /\ [][NextMatch]_vars

(***************************************************************************)
(* SpecStatus: the checklist of one stage, completed and reopened task by  *)
(* task while the clock runs.                                              *)
(***************************************************************************)
NextStatus ==
  \/ Tick
  \/ \E f \in LedgerFunds, i \in LedgerInvestors :
       \E s \in StageIdsNamed({f}, ChecklistStageNames) :
         move_investor_in_pipeline(i, f, s, 0)
  \/ \E id \in TaskIdInputs :
       edits < MaxTaskEdits /\ complete_user_task(id)
  \/ \E id \in TaskIdInputs :
       edits < MaxTaskEdits /\ reopen_user_task(id)
  \/ \E f \in LedgerFunds, include_completed \in BOOLEAN :
       get_user_tasks(f, include_completed)
  \/ \E f \in LedgerFunds : get_all_tasks(f)

SpecStatus == Init /\ [][NextStatus]_vars

(***************************************************************************)
(* SpecGenerate: auto_generate_stage_tasks called once, for every stage    *)
(* name of the default board and one custom name, over task stores that    *)
(* hold earlier tasks of the investor.                                     *)
(***************************************************************************)
\* the stage names the generator is called with
GeneratorStageNames ==
  { DEFAULT_PIPELINE_STAGES[k].name : k \in DOMAIN DEFAULT_PIPELINE_STAGES }
    \cup CustomStageNames

\* the users on whose behalf the generator runs
GeneratorUsers == {"U1", "U2"}

\* tasks stored before the call: one written by hand for the pair, one
\* generated for the investor in another stage, one generated for the pair
EarlierTasks(fund_id, stage_id, stage_name, investor_id) ==
  { UserTask(<< investor_id, stage_id, 0, 1 >>, fund_id, T("Call back", "low"),
             stage_id, stage_name, investor_id, 0, "U2", FALSE, 0),
    UserTask(<< investor_id, stage_id + 1, 1, 1 >>, fund_id, T("Log call notes", "medium"),
             stage_id + 1, "Phone Call", investor_id, 5, "U1", TRUE, 0),
    UserTask(<< investor_id, stage_id, 1, 1 >>, fund_id, T("Earlier checklist item", "high"),
             stage_id, stage_name, investor_id, 0, "U1", TRUE, 0) }

InitGenerate ==
  /\ pipeline_stages = << >>
  /\ investor_profiles = {}
  /\ investor_pipeline = {}
  /\ investor_fund_assignments = {}
  /\ investor_requests = {}
  /\ now \in 0..MaxClock
  /\ edits = 0
  /\ calls = [c \in Callers |-> IdleFrame(0)]
  /\ \E stage_name \in GeneratorStageNames, created_by_id \in GeneratorUsers :
       /\ op = Op("generate_request", "F1", "I1", 7, 0,
                  [stage_name |-> stage_name, created_by_id |-> created_by_id])
       /\ user_tasks \in SUBSET EarlierTasks("F1", 7, stage_name, "I1")
  /\ entered = {}
  /\ generated = << >>

NextGenerate == call_auto_generate_stage_tasks

SpecGenerate == InitGenerate /\ [][NextGenerate]_vars

(***************************************************************************)
(* SpecPurge: duplicate investors of one fund moved along its board, then  *)
(* merged or deleted.                                                      *)
(***************************************************************************)
\* two profiles of the same investor, and one id no profile carries
DuplicateInvestors == {"I1", "I3"}

\* the delete_investor_ids lists offered
DeleteIdInputs ==
  { << i >> : i \in DuplicateInvestors \cup {"I0"} } \cup { << "I3", "I1" >> }

NextPurge ==
  \/ \E f \in LedgerFunds, i \in DuplicateInvestors :
       \E s \in StageIdsNamed({f}, OfferedStageNames) :
         move_investor_in_pipeline(i, f, s, 0)
  \/ \E keep_id \in DuplicateInvestors \cup {"I0"}, delete_ids \in DeleteIdInputs :
       merge_investors(keep_id, delete_ids)
  \/ \E i \in DuplicateInvestors \cup {"I0"} : admin_delete_investor(i)
  \/ \E i \in DuplicateInvestors \cup {"I0"} : delete_investor_profile(i)

SpecPurge == Init /\ [][NextPurge]_vars

(***************************************************************************)
(* SpecOnboard: investors assigned to funds, directly or through requests, *)
(* from an empty stage registry: a fund's board is seeded only when it is  *)
(* first opened.                                                           *)
(***************************************************************************)
NextOnboard ==
  \/ \E f \in FundIds : get_pipeline_stages(f)
  \/ \E i \in LedgerInvestors \cup {"I0"}, fas \in FundAssignmentInputs(FundIds \cup {"F0"}) :
       create_investor_fund_assignments(i, fas)
  \/ \E i \in LedgerInvestors \cup {"I0"}, f \in FundIds :
       /\ Cardinality(investor_requests) < MaxRequests
       /\ create_investor_request(i, f)
  \/ \E id \in RequestIdInputs, s \in DefaultStageInputs(FundIds) \cup {None} :
       approve_investor_request(id, s)
  \/ \E id \in RequestIdInputs : deny_investor_request(id)

SpecOnboard == InitStages /\ [][NextOnboard]_vars

(***************************************************************************)
(* Claims on the pipeline ledger and the task generator.                   *)
(***************************************************************************)
HasTemplate(stage_id) ==
  STAGE_AUTO_TASKS(StageNameOf(pipeline_stages, stage_id)) # << >>

AutoTasksOf(tasks, investor_id, stage_id) ==
  { t \in tasks : /\ t.investor_id = investor_id /\ t.stage_id = stage_id
                  /\ t.is_auto_generated }

\* C1: under add / move / remove calls only, every (investor, stage) pair
\* with a non-empty checklist template that has been entered got exactly one
\* batch of auto-generated tasks (one on first entry, none on re-entry).
C1_ExactlyOneBatchPerEnteredPair ==
  /\ \A p \in DOMAIN generated : generated[p] <= 1
  /\ \A p \in entered : HasTemplate(p[2]) => Generated(generated, p) = 1

\* C5: a move into the stage the entry is already in changes only the
\* entry's position and updated_at; stage_entered_at stays and the task
\* store is unchanged.
C5_SameStageMoveOnlyRepositions ==
  [][ LET e == FindEntry(investor_pipeline, op'.fund, op'.investor)
      IN (/\ op'.name = "move_investor_in_pipeline"
          /\ e # NoDoc
          /\ e.stage_id = op'.stage)
         => /\ user_tasks' = user_tasks
            /\ \E e2 \in investor_pipeline' :
                  /\ e2 = [e EXCEPT !.position = e2.position,
                                    !.updated_at = e2.updated_at]
                  /\ e2.stage_entered_at = e.stage_entered_at
                  /\ investor_pipeline' \ {e2} = investor_pipeline \ {e} ]_vars

\* C5 witness: the last call was a move that left the entry in its stage,
\* later than the entry entered that stage, with the checklist in place.
C5_Witness ==
  /\ op.name = "move_investor_in_pipeline"
  /\ \E e \in investor_pipeline :
        /\ e.fund_id = op.fund /\ e.investor_id = op.investor
        /\ e.stage_id = op.stage
        /\ e.stage_entered_at < e.updated_at
        /\ e.updated_at = now
        /\ AutoTasksOf(user_tasks, e.investor_id, e.stage_id) # {}

\* C6: whenever an existing entry's stage changes, by any handler, its
\* stage_entered_at becomes the time of the change; it keeps its value
\* when the stage does not change.
C6_StageChangeRefreshesEnteredAt ==
  [][ \A e \in investor_pipeline : \A e2 \in investor_pipeline' :
        e2.id = e.id =>
          IF e2.stage_id # e.stage_id
          THEN e2.stage_entered_at = now'
          ELSE e2.stage_entered_at = e.stage_entered_at ]_vars

\* C7: every add / move call that creates the entry or changes its stage to
\* S leaves auto-generated tasks for (investor, S) when S has a template.
C7_StageEntryEmitsTasks ==
  [][ LET e == FindEntry(investor_pipeline, op'.fund, op'.investor)
      IN (/\ op'.name \in {"add_investor_to_pipeline", "move_investor_in_pipeline"}
          /\ op'.status = 200
          /\ (e = NoDoc \/ e.stage_id # op'.stage)
          /\ HasTemplate(op'.stage))
         => AutoTasksOf(user_tasks', op'.investor, op'.stage) # {} ]_vars

\* C8: a position-only update_investor_pipeline, create_investor_note and
\* remove_investor_from_pipeline leave the task store unchanged.
C8_EntryEditsLeaveTasks ==
  [][ (\/ op'.name \in {"remove_investor_from_pipeline", "create_investor_note"}
       \/ (op'.name = "update_investor_pipeline" /\ op'.stage = None))
      => user_tasks' = user_tasks ]_vars

\* C8 witness: the investor was removed from the pipeline after a note had
\* been logged, and the checklist of the stage it was in is still there.
C8_Witness ==
  /\ op.name = "remove_investor_from_pipeline"
  /\ op.status = 200
  /\ investor_pipeline = {}
  /\ AutoTasksOf(user_tasks, op.investor, op.stage) # {}

\* C3: after any series of add / move / create_investor_fund_assignments /
\* approve_investor_request / remove calls there is at most one pipeline
\* entry for every (fund, investor) pair.
C3_OneEntryPerFundInvestor ==
  \A e1 \in investor_pipeline : \A e2 \in investor_pipeline :
    (e1.fund_id = e2.fund_id /\ e1.investor_id = e2.investor_id) => e1 = e2

\* C9: with task deletions and task edits interleaved with stage moves, the
\* checklist of an (investor, stage) pair is generated at most once.
C9_ChecklistGeneratedAtMostOnce ==
  \A p \in DOMAIN generated : generated[p] < 2

\* C2: when the moves of two callers into the same stage interleave, the
\* store holds at most one batch of auto-generated tasks for the
\* (investor, stage) pair: no template task is stored twice.
C2_AtMostOneBatchUnderRace ==
  \A t1 \in user_tasks : \A t2 \in user_tasks :
    ( /\ t1.is_auto_generated /\ t2.is_auto_generated
      /\ t1.investor_id = t2.investor_id
      /\ t1.stage_id = t2.stage_id
      /\ t1.title = t2.title ) => t1 = t2

\* C4: once two concurrent first calls of add / move for a (fund, investor)
\* pair have both returned, the pair has exactly one pipeline entry.
C4_OneEntryAfterConcurrentFirstCalls ==
  (\A c \in Callers : calls[c].pc = "idle" /\ calls[c].n = 1)
    => \A f \in LedgerFunds, i \in LedgerInvestors :
         Cardinality({ e \in investor_pipeline :
                         e.fund_id = f /\ e.investor_id = i }) = 1

(***************************************************************************)
(* Claims on the stage registry.                                           *)
(***************************************************************************)
CanonicalStageNames ==
  << "Prospects", "Investors", "Intro Email", "Opportunity Email", "Phone Call",
     "First Meeting", "Second Meeting", "Follow Up Email", "Signing Contract",
     "Signing Subscription", "Letter for Capital Call", "Money Transfer",
     "Transfer Date" >>

\* the list is the canonical board of the fund: 13 stages, the k-th one named
\* as in the canonical order at position k-1, only the first one default
IsCanonicalBoard(list, fund_id) ==
  /\ Len(list) = Len(CanonicalStageNames)
  /\ \A k \in 1..Len(list) :
       /\ list[k].fund_id = fund_id
       /\ list[k].name = CanonicalStageNames[k]
       /\ list[k].position = k - 1
       /\ list[k].is_default = (k = 1)
  /\ \A j \in 1..Len(list) : \A k \in 1..Len(list) :
       list[j].id = list[k].id => j = k

IsSortedByPosition(list) ==
  \A j \in 1..Len(list) : \A k \in 1..Len(list) :
    j < k => list[j].position <= list[k].position

C11_SeedingIsAtomic ==
  \A f \in FundIds :
    LET board == StagesOfFund(pipeline_stages, f)
    IN /\ Len(board) <= Len(CanonicalStageNames)
       /\ \A j \in 1..Len(board) : \A k \in 1..Len(board) :
            board[j].name = board[k].name => j = k
       /\ Cardinality({ k \in 1..Len(board) : board[k].is_default }) <= 1
       /\ ((\A c \in Callers : calls[c].pc = "idle") /\ board # << >>)
            => Len(board) = Len(CanonicalStageNames)

\* C12: delete_pipeline_stage on a stage some pipeline entry references answers
\* 400 and leaves stages and entries as they were; on an unreferenced stage it
\* removes that stage alone, every other stage keeping its place and position.
C12_DeleteStageGuarded ==
  [][ op'.name = "delete_pipeline_stage" =>
        LET sid == op'.stage
            known == \E k \in 1..Len(pipeline_stages) : pipeline_stages[k].id = sid
            referenced == \E e \in investor_pipeline : e.stage_id = sid
            others == SelectSeq(pipeline_stages, LAMBDA x : x.id # sid)
        IN /\ investor_pipeline' = investor_pipeline
           /\ (known /\ referenced) =>
                (op'.status = 400 /\ pipeline_stages' = pipeline_stages)
           /\ (known /\ ~referenced) =>
                /\ op'.status = 200
                /\ Len(pipeline_stages') = Len(pipeline_stages) - 1
                /\ pipeline_stages' = others
           /\ ~known => (op'.status = 404 /\ pipeline_stages' = pipeline_stages)
    ]_vars

\* a refused deletion: the investor sits in the stage named in the call
C12_Witness ==
  /\ op.name = "delete_pipeline_stage"
  /\ op.status = 400
  /\ \E e \in investor_pipeline : e.stage_id = op.stage
  /\ \E k \in 1..Len(pipeline_stages) : pipeline_stages[k].id = op.stage

\* C13: every pipeline entry's stage_id names a stage that exists and belongs
\* to the entry's own fund, and a call naming a stage that does not exist is
\* answered 404 and changes nothing.
C13_EntriesReferenceLiveStages ==
  /\ \A e \in investor_pipeline :
       \E k \in 1..Len(pipeline_stages) :
         pipeline_stages[k].id = e.stage_id /\ pipeline_stages[k].fund_id = e.fund_id
  /\ (/\ op.name \in {"add_investor_to_pipeline", "move_investor_in_pipeline",
                      "update_investor_pipeline"}
      /\ op.stage \in UnknownStageIds) => op.status = 404

(***************************************************************************)
(* Claims on the capital classifier.                                       *)
(***************************************************************************)
\* the investor record of a pipeline entry
RecordOf(e) == CHOOSE p \in investor_profiles : p.id = e.investor_id

\* the pipeline entries of a fund whose current stage carries one of the names
EntriesInStages(fund_id, names) ==
  { e \in investor_pipeline :
      e.fund_id = fund_id /\ StageNameOf(pipeline_stages, e.stage_id) \in names }

\* C14: get_capital_overview adds the investment_size of an investor in Money
\* Transfer or Transfer Date to deployed capital exactly when it is positive,
\* lists the investor under missing investment size otherwise, and so reports
\* the sum of the positive sizes of the investors in the deployed stages.
C14_DeployedCapitalSumsPositiveSizes ==
  (op.name = "get_capital_overview" /\ op.status = 200) =>
    LET inside == EntriesInStages(op.fund, {"Money Transfer", "Transfer Date"})
        size == [e \in inside |-> RecordOf(e).investment_size]
    IN /\ op.result.deployed_capital =
            Sum([e \in inside |-> IF size[e] > 0 THEN size[e] ELSE 0], inside)
       /\ \A e \in inside :
            IF size[e] > 0
            THEN e.id \in op.result.deployed_investors
            ELSE e.id \in op.result.missing_investment_size_investors

\* the bucket the capital rules give a stage name
Bucket(stage_name) ==
  IF stage_name \in {"Money Transfer", "Transfer Date"} THEN "deployed"
  ELSE IF stage_name \in {"Signing Contract", "Signing Subscription",
                          "Letter for Capital Call"} THEN "final"
  ELSE IF lower(stage_name) = "declined" THEN "excluded"
  ELSE "potential"

\* the pipeline entries of a fund whose current stage is a stage of the fund
\* in the bucket
EntriesInBucket(fund_id, bucket) ==
  { e \in investor_pipeline :
      /\ e.fund_id = fund_id
      /\ \E k \in 1..Len(pipeline_stages) :
           /\ pipeline_stages[k].id = e.stage_id
           /\ pipeline_stages[k].fund_id = fund_id
           /\ Bucket(pipeline_stages[k].name) = bucket }

\* expected_ticket_amount when positive, else investment_size when positive, else 0
TicketElseSize(e) ==
  IF RecordOf(e).expected_ticket_amount > 0 THEN RecordOf(e).expected_ticket_amount
  ELSE IF RecordOf(e).investment_size > 0 THEN RecordOf(e).investment_size
  ELSE 0

\* C15: an investor in a potential stage contributes its expected_ticket_amount
\* when positive, else its investment_size when positive, else nothing and is
\* then listed under missing expected ticket; this holds for the potential
\* capital of get_capital_overview and for that of get_dashboard_stats.
C15_PotentialUsesTicketThenSize ==
  /\ (op.name = "get_capital_overview" /\ op.status = 200) =>
       LET inside == EntriesInBucket(op.fund, "potential")
       IN /\ op.result.potential_capital = Sum([e \in inside |-> TicketElseSize(e)], inside)
          /\ \A e \in inside :
               e.id \in op.result.missing_expected_ticket_investors <=> TicketElseSize(e) = 0
  /\ op.name = "get_dashboard_stats" =>
       op.result.total_potential_capital =
         Sum([f \in FundIds |->
                Sum([e \in EntriesInBucket(f, "potential") |-> TicketElseSize(e)],
                    EntriesInBucket(f, "potential"))], FundIds)

\* the worked example: fund F1 with target 50, I1 in Money Transfer with
\* investment_size 20, I3 in Signing Contract with ticket 3, I4 in Prospects
\* with ticket 1, and nothing else on any board
WorkedExample ==
  /\ target_raise_of("F1") = 50
  /\ { e.investor_id : e \in investor_pipeline } = {"I1", "I3", "I4"}
  /\ \A e \in investor_pipeline : e.fund_id = "F1"
  /\ \E e \in EntriesInStages("F1", {"Money Transfer"}) :
       e.investor_id = "I1" /\ RecordOf(e).investment_size = 20
  /\ \E e \in EntriesInStages("F1", {"Signing Contract"}) :
       e.investor_id = "I3" /\ RecordOf(e).expected_ticket_amount = 3
  /\ \E e \in EntriesInStages("F1", {"Prospects"}) :
       e.investor_id = "I4" /\ RecordOf(e).expected_ticket_amount = 1

\* C16: every pipeline entry counts toward at most one bucket; an investor in
\* Signing Contract, Signing Subscription or Letter for Capital Call counts
\* toward final-stage capital and never toward potential capital; an investor
\* in a stage named declined counts toward nothing; the worked example is
\* classified as deployed 20 (40 percent of the goal), final-stage 3, potential 1.
C16_StagesPartitionIntoFourBuckets ==
  /\ (op.name = "get_capital_overview" /\ op.status = 200) =>
       LET r == op.result
           toward_deployed == r.deployed_investors \cup r.missing_investment_size_investors
           toward_potential == r.potential_investors \cup r.missing_expected_ticket_investors
       IN /\ toward_deployed \cap toward_potential = {}
          /\ \A e \in EntriesInBucket(op.fund, "final") : e.id \notin toward_potential
          /\ \A e \in EntriesInBucket(op.fund, "excluded") :
               e.id \notin toward_deployed \cup toward_potential
          /\ (WorkedExample /\ op.fund = "F1") =>
               /\ r.deployed_capital = 20
               /\ r.progress_percentage = 400
               /\ r.potential_capital = 1
  /\ (op.name = "get_dashboard_stats" /\ WorkedExample) =>
       /\ op.result.total_deployed_capital = 20
       /\ op.result.capital_in_final_stages = 3
       /\ op.result.total_potential_capital = 1
  /\ (op.name = "get_fund_performance" /\ WorkedExample) =>
       /\ op.result["F1"].deployed_capital = 20
       /\ op.result["F1"].percent_of_goal = 400
       /\ op.result["F1"].capital_in_final_stages = 3

\* C17: the three totals of get_dashboard_stats are the sums over the funds of
\* the per-fund figures: deployed capital as get_capital_overview and
\* get_fund_performance report it, final-stage capital as get_fund_performance
\* reports it, potential capital as get_capital_overview reports it.
C17_DashboardSumsPerFundFigures ==
  op.name = "get_dashboard_stats" =>
    /\ op.result.total_deployed_capital =
         Sum([f \in FundIds |-> capital_overview(f).deployed_capital], FundIds)
    /\ op.result.total_deployed_capital =
         Sum([f \in FundIds |-> fund_performance(f).deployed_capital], FundIds)
    /\ op.result.capital_in_final_stages =
         Sum([f \in FundIds |-> fund_performance(f).capital_in_final_stages], FundIds)
    /\ op.result.total_potential_capital =
         Sum([f \in FundIds |-> capital_overview(f).potential_capital], FundIds)

\* the calls of the capital classifier
ClassifierCalls == {"get_capital_overview", "get_dashboard_stats", "get_fund_performance"}

\* C18: a call of get_capital_overview, get_dashboard_stats or
\* get_fund_performance changes no collection, and a call that follows a call
\* of the same handler for the same fund with no write in between answers the
\* same figures and lists.
C18_ClassifierIsPureRead ==
  [][ op'.name \in ClassifierCalls =>
        /\ << investor_profiles, pipeline_stages, investor_pipeline, user_tasks,
              investor_fund_assignments, investor_requests >>' =
           << investor_profiles, pipeline_stages, investor_pipeline, user_tasks,
              investor_fund_assignments, investor_requests >>
        /\ (op.name = op'.name /\ op.fund = op'.fund) => op' = op ]_vars

\* a classifier call has answered on a board with deployed and potential
\* capital and leaves it as it found it
C18_Witness ==
  /\ op.name = "get_capital_overview" /\ op.status = 200
  /\ op.result.deployed_capital > 0
  /\ op.result.potential_capital > 0
  /\ capital_overview(op.fund) = op.result

\* C19: the classifier reads the investor record of every pipeline entry of
\* the fund, whatever fund_id the record carries: get_capital_overview puts
\* each entry outside the excluded stages in exactly one of its four lists,
\* and get_fund_performance counts every entry as an active investor.
C19_EveryEntryIsLookedUp ==
  /\ (op.name = "get_capital_overview" /\ op.status = 200) =>
       \A e \in { x \in investor_pipeline : x.fund_id = op.fund } \
                   EntriesInBucket(op.fund, "excluded") :
         Cardinality({ list \in { "deployed_investors", "missing_investment_size_investors",
                                   "potential_investors", "missing_expected_ticket_investors" } :
                         e.id \in op.result[list] }) = 1
  /\ op.name = "get_fund_performance" =>
       \A f \in FundIds :
         op.result[f].active_investors =
           Cardinality({ x \in investor_pipeline : x.fund_id = f })

(***************************************************************************)
(* Claims on the persona scoring.                                          *)
(***************************************************************************)
\* the attributes a persona sets; target_gender "diverse" asks for nothing
SetAttributes(persona) ==
  {"Investor type" : x \in { y \in {persona.target_investor_type} : y # "" }}
  \cup {"Nationality" : x \in { y \in {persona.target_nationalities} : y # << >> }}
  \cup {"Sector" : x \in { y \in {persona.target_sectors} : y # << >> }}
  \cup {"Gender" : x \in { y \in {persona.target_gender} : y # "" /\ lower(y) # "diverse" }}
  \cup {"Age group" : x \in { y \in {persona.target_age_min} : y # None }}

\* the investor has what the persona asks for in the attribute
Matches(investor, persona, attribute) ==
  CASE attribute = "Investor type" ->
         lower(investor.investor_type) = lower(persona.target_investor_type)
    [] attribute = "Nationality" ->
         \E n \in Range(persona.target_nationalities) :
           \/ lower(n) = lower(investor.nationality)
           \/ lower(n) = "gcc" /\ lower(investor.nationality) \in GCC
    [] attribute = "Sector" ->
         /\ investor.sector # ""
         /\ \E t \in Range(persona.target_sectors) :
              /\ t # ""
              /\ \/ is_substring(lower(t), lower(investor.sector))
                 \/ is_substring(lower(investor.sector), lower(t))
    [] attribute = "Gender" -> lower(investor.gender) = lower(persona.target_gender)
    [] attribute = "Age group" ->
         investor.age # None /\ investor.age >= persona.target_age_min

\* the investors that differ from the investor in one field
OneFieldAway(investor) ==
  { other \in ScoredInvestors :
      Cardinality({ f \in DOMAIN investor : other[f] # investor[f] }) = 1 }

\* C20: an investor matching every attribute a persona sets (there being one)
\* scores 100; a persona that sets no attribute, or only target_gender
\* "diverse", scores 0 for every investor; and for a fixed persona an investor
\* that differs in one field and has one more matched attribute, none fewer,
\* does not score lower.
C20_ScoreIsNormalisedAndMonotone ==
  op.name = "_score_rule_based" =>
    LET investor == op.result.investor
        persona == op.result.persona
        match == op.result.match
    IN /\ (SetAttributes(persona) # {}
           /\ \A a \in SetAttributes(persona) : Matches(investor, persona, a))
            => match.score = 100
       /\ SetAttributes(persona) = {} => match.score = 0
       /\ \A other \in OneFieldAway(investor) :
            LET better == score_rule_based(other, persona)
            IN (/\ Range(match.matched_fields) \subseteq Range(better.matched_fields)
                /\ Cardinality(Range(better.matched_fields)) =
                     Cardinality(Range(match.matched_fields)) + 1)
               => better.score >= match.score

\* a partial match: two attributes set, one matched, scored strictly between
C20_Witness ==
  /\ op.name = "_score_rule_based"
  /\ Cardinality(SetAttributes(op.result.persona)) >= 2
  /\ Len(op.result.match.matched_fields) = 1
  /\ op.result.match.score \in 1..99
  /\ \E other \in OneFieldAway(op.result.investor) :
       score_rule_based(other, op.result.persona).score = 100

\* the weight the scoring rules give an attribute
AttributeWeight(attribute) ==
  CASE attribute = "Investor type" -> 35
    [] attribute = "Nationality" -> 25
    [] attribute = "Sector" -> 20
    [] attribute = "Gender" -> 10
    [] attribute = "Age group" -> 10

\* the sum of the weights of the attributes
WeightOf(attributes) == Sum([a \in attributes |-> AttributeWeight(a)], attributes)

\* persona {type Family Office, nationalities {Saudi Arabia}} against an
\* investor {Family Office, UAE}
FamilyOfficeExample(investor, persona) ==
  /\ persona = [target_investor_type |-> "Family Office",
                target_nationalities |-> << "Saudi Arabia" >>,
                target_sectors |-> << >>, target_gender |-> "", target_age_min |-> None]
  /\ investor.investor_type = "Family Office"
  /\ investor.nationality = "UAE"

\* C21: _score_rule_based lists every attribute the persona sets in exactly
\* one of matched_fields and unmatched_fields and no other attribute, the
\* score is round(100 x weight of matched_fields / weight of both lists) with
\* weights 35, 25, 20, 10, 10 (0 when nothing is set), and the Family Office
\* example scores 58 with Investor type matched and Nationality unmatched.
C21_FieldsPartitionAndScoreFormula ==
  op.name = "_score_rule_based" =>
    LET match == op.result.match
        matched == Range(match.matched_fields)
        unmatched == Range(match.unmatched_fields)
    IN /\ matched \cup unmatched = SetAttributes(op.result.persona)
       /\ matched \cap unmatched = {}
       /\ Len(match.matched_fields) = Cardinality(matched)
       /\ Len(match.unmatched_fields) = Cardinality(unmatched)
       /\ match.score = IF matched \cup unmatched = {} THEN 0
                        ELSE round_score(WeightOf(matched), WeightOf(matched \cup unmatched))
       /\ FamilyOfficeExample(op.result.investor, op.result.persona) =>
            /\ match.score = 58
            /\ match.matched_fields = << "Investor type" >>
            /\ match.unmatched_fields = << "Nationality" >>

\* the Family Office example has been scored
C21_Witness ==
  /\ op.name = "_score_rule_based"
  /\ FamilyOfficeExample(op.result.investor, op.result.persona)
  /\ op.result.match.score = 58

(***************************************************************************)
(* Claims on persona matching.                                             *)
(***************************************************************************)
\* the assistant path failed: no answer, or an answer that is not an array of
\* objects naming a persona
AssistantFailed(assistant) ==
  \/ assistant.outcome \in {"unconfigured", "raises", "unparseable"}
  \/ assistant.value.type # "array"
  \/ \E k \in 1..Len(assistant.value.items) :
       assistant.value.items[k].type # "object" \/ ~assistant.value.items[k].has_persona_id

\* C22: when the assistant is unconfigured, raises, or answers something
\* unparseable or not of the documented array shape, match_investor_to_personas
\* still succeeds and returns the deterministic scorer's result for every
\* persona of the fund, with method rule_based.
C22_AssistantFailureFallsBack ==
  (/\ op.name = "match_investor_to_personas"
   /\ op.status = 200
   /\ personas_of(op.fund) # << >>
   /\ AssistantFailed(op.result.assistant)) =>
    /\ op.result.response.method = "rule_based"
    /\ Len(op.result.response.matches) = Len(personas_of(op.fund))
    /\ \A k \in 1..Len(personas_of(op.fund)) :
         \E j \in 1..Len(op.result.response.matches) :
           LET m == op.result.response.matches[j]
               result == score_rule_based(investor_for_match(op.investor),
                                          personas_of(op.fund)[k])
           IN /\ m.persona_id = personas_of(op.fund)[k].id
              /\ m.score = JsonScore("number", result.score)
              /\ m.matched_fields = result.matched_fields
              /\ m.unmatched_fields = result.unmatched_fields

\* C23: every match result match_investor_to_personas returns, from the
\* assistant path or from the deterministic path, carries a numeric score
\* within 0..100.
C23_ScoresAreWithinRange ==
  (op.name = "match_investor_to_personas" /\ op.status = 200) =>
    \A k \in 1..Len(op.result.response.matches) :
      /\ op.result.response.matches[k].score.type = "number"
      /\ op.result.response.matches[k].score.n \in 0..100

(***************************************************************************)
(* Claims on the task manager.                                             *)
(***************************************************************************)
\* the task of the id, when there is one
TaskOf(tasks, task_id) == CHOOSE t \in tasks : t.id = task_id

\* C24: complete_user_task sets the status to completed, which takes an open
\* task out of the default listing of get_user_tasks and lowers total_tasks
\* of get_all_tasks by one; reopen_user_task sets it back to open and the
\* task is listed again; a repeated call leaves status, listing and total as
\* they are; no other task changes; an unknown task id answers 404 and
\* changes nothing.
C24_StatusIsReversibleTwoStateMachine ==
  [][ op'.name \in {"complete_user_task", "reopen_user_task"} =>
        LET task_id == op'.result[1]
            known == \E t \in user_tasks : t.id = task_id
            status == IF op'.name = "complete_user_task" THEN "completed" ELSE "open"
        IN IF ~known
           THEN op'.status = 404 /\ user_tasks' = user_tasks
           ELSE LET before == TaskOf(user_tasks, task_id)
                    after == TaskOf(user_tasks', task_id)
                    f == before.fund_id
                IN /\ op'.status = 200
                   /\ user_tasks' \ {after} = user_tasks \ {before}
                   /\ after = [before EXCEPT !.status = status, !.updated_at = after.updated_at]
                   /\ (task_id \in user_tasks_listed(user_tasks', f, FALSE)) <=> (status = "open")
                   /\ user_tasks_listed(user_tasks', f, TRUE) = user_tasks_listed(user_tasks, f, TRUE)
                   /\ all_tasks_total(investor_pipeline', user_tasks', f) =
                        all_tasks_total(investor_pipeline, user_tasks, f)
                        + (IF before.status = status THEN 0
                           ELSE IF status = "completed" THEN -1 ELSE 1) ]_vars

\* a task has been completed and reopened at a later time, its siblings
\* staying completed or open as they were
C24_Witness ==
  /\ op.name = "reopen_user_task" /\ op.status = 200
  /\ TaskOf(user_tasks, op.result[1]).status = "open"
  /\ TaskOf(user_tasks, op.result[1]).updated_at > 0
  /\ \E t \in user_tasks : t.status = "completed"


(***************************************************************************)
(* Claims on fund assignments and assignment requests.                     *)
(***************************************************************************)
\* the pair (fund, investor) has a pipeline entry
HasEntry(entries, fund_id, investor_id) ==
  \E e \in entries : e.fund_id = fund_id /\ e.investor_id = investor_id

\* C25: every new fund assignment that succeeds leaves a pipeline entry for
\* its (fund, investor): each fund create_investor_fund_assignments reports
\* under created_assignments, and the fund of a pending request that
\* approve_investor_request approves for an investor not yet assigned, has an
\* entry for the investor once the handler has returned.
C25_NewAssignmentLeavesPipelineEntry ==
  [][ /\ op'.name \in {"create_investor_fund_assignments", "approve_investor_request"}
      /\ op'.status = 200
      /\ investor_fund_assignments' # investor_fund_assignments
      => \A k \in 1..Len(op'.result) :
           HasEntry(investor_pipeline', op'.result[k], op'.investor) ]_vars

\* the pending requests of a pair (investor, fund)
PendingFor(requests, investor_id, fund_id) ==
  { r \in requests : /\ r.investor_id = investor_id
                      /\ r.requested_fund_id = fund_id
                      /\ r.status = "pending" }

\* the stores a request handler may write
RequestStores == << investor_requests, investor_fund_assignments, investor_pipeline >>

\* C26: a request is resolved at most once and pending requests are unique.
\* create_investor_request answers 400 and stores nothing while a pending
\* request for the same (investor, fund) exists or the investor is already
\* assigned to the fund; approve and deny answer 200 only for a pending
\* request, which they resolve, and answer 400 and change nothing for a
\* request already approved or denied; a stored status never leaves
\* approved or denied, and no pair ever has two pending requests.
C26_RequestsResolveOnceAndPendingIsUnique ==
  [][ /\ op'.name = "create_investor_request" /\ op'.status # 404
         => IF \/ PendingFor(investor_requests, op'.investor, op'.fund) # {}
               \/ already_assigned(investor_fund_assignments, investor_pipeline,
                                    op'.investor, op'.fund)
            THEN op'.status = 400 /\ UNCHANGED RequestStores
            ELSE /\ op'.status = 200
                 /\ Cardinality(PendingFor(investor_requests', op'.investor, op'.fund)) = 1
      /\ op'.name \in {"approve_investor_request", "deny_investor_request"}
         => LET resolved == IF op'.name = "deny_investor_request" THEN "denied"
                            ELSE "approved"
            IN CASE op'.status = 200 ->
                      \E r \in PendingFor(investor_requests, op'.investor, op'.fund) :
                        investor_requests' =
                          (investor_requests \ {r}) \cup {[r EXCEPT !.status = resolved]}
                 [] op'.status = 400 ->
                      /\ UNCHANGED RequestStores
                      /\ \E r \in investor_requests :
                           /\ r.investor_id = op'.investor
                           /\ r.requested_fund_id = op'.fund
                           /\ r.status \in {"approved", "denied"}
                 [] OTHER -> op'.status = 404 /\ UNCHANGED RequestStores
      /\ \A r \in investor_requests :
           r.status \in {"approved", "denied"} => r \in investor_requests'
      /\ \A r \in investor_requests' :
           r.status = "pending"
           => PendingFor(investor_requests', r.investor_id, r.requested_fund_id) = {r}
    ]_vars

\* a denied and an approved request are stored, and the last call tried to
\* resolve one of them again
C26_Witness ==
  /\ op.name \in {"approve_investor_request", "deny_investor_request"}
  /\ op.status = 400
  /\ \E r \in investor_requests : r.status = "approved"
  /\ \E r \in investor_requests : r.status = "denied"

(***************************************************************************)
(* Claims on the batch the task generator inserts.                         *)
(***************************************************************************)
\* C27: when auto_generate_stage_tasks passes its guard (the stage name has a
\* template and no auto-generated task is stored for the investor and stage)
\* it inserts exactly one task per entry of STAGE_AUTO_TASKS[stage_name], with
\* the entry's title and priority, open, flagged is_auto_generated, bound to
\* the fund, stage id and investor given, created_by the acting user, and
\* every task of the batch has the due date today + STAGE_DUE_DAYS[stage_name];
\* for a stage name absent from the table it inserts nothing and answers
\* without error. Stored tasks are never touched.
C27_BatchMirrorsTemplate ==
  [][ op'.name = "auto_generate_stage_tasks" =>
        LET stage_name == op'.result.stage_name
            task_defs == STAGE_AUTO_TASKS(stage_name)
            inserted == user_tasks' \ user_tasks
            stored == { t \in user_tasks : /\ t.investor_id = op'.investor
                                            /\ t.stage_id = op'.stage
                                            /\ t.is_auto_generated }
        IN /\ user_tasks \subseteq user_tasks'
           /\ op'.status = 0
           /\ task_defs = << >> => inserted = {}
           /\ task_defs # << >> /\ stored = {} =>
                /\ Cardinality(inserted) = Len(task_defs)
                /\ \A k \in 1..Len(task_defs) :
                     Cardinality({ t \in inserted :
                                     /\ t.title = task_defs[k].title
                                     /\ t.priority = task_defs[k].priority }) = 1
                /\ \A t \in inserted :
                     /\ t.status = "open"
                     /\ t.is_auto_generated
                     /\ t.fund_id = op'.fund
                     /\ t.stage_id = op'.stage
                     /\ t.stage_name = stage_name
                     /\ t.investor_id = op'.investor
                     /\ t.created_by = op'.result.created_by_id
                     /\ t.due_date = DateOf(now) + STAGE_DUE_DAYS(stage_name)
                     /\ STAGE_DUE_DAYS(stage_name) \in 3..14 ]_vars

\* the five tasks of "Money Transfer" were inserted on a later day for the
\* second user, beside a task written by hand, all due fourteen days on
C27_Witness ==
  /\ op.name = "auto_generate_stage_tasks"
  /\ op.result = [stage_name |-> "Money Transfer", created_by_id |-> "U2"]
  /\ now > 0
  /\ \E t \in user_tasks : ~t.is_auto_generated
  /\ Cardinality({ t \in user_tasks :
                     /\ t.is_auto_generated /\ t.stage_id = op.stage
                     /\ t.created_by = "U2"
                     /\ t.due_date = DateOf(now) + 14 }) = 5

(***************************************************************************)
(* Claims on the startup migration and on investor deletion.               *)
(***************************************************************************)
\* the stages of the fund named "Prospects"
ProspectsOf(stages, fund_id) ==
  { k \in 1..Len(stages) : stages[k].fund_id = fund_id /\ stages[k].name = "Prospects" }

\* C28: the startup migration does not defeat seeding. The registry is empty
\* when the server starts; as long as nobody has edited a stage, every call of
\* get_pipeline_stages answers with the 13 canonical stages of the fund,
\* Prospects at position 0 and default, whether or not
\* migrate_add_prospects_stage has run before it; and a run of the migration
\* over funds that all hold a Prospects stage changes nothing.
C28_MigrationDoesNotDefeatSeeding ==
  [][ /\ op'.name = "get_pipeline_stages" /\ edits' = 0
         => IsCanonicalBoard(op'.result, op'.fund)
      /\ op'.name = "startup_event"
         => /\ \A f \in FundIds : Cardinality(ProspectsOf(pipeline_stages', f)) = 1
            /\ (\A f \in FundIds : ProspectsOf(pipeline_stages, f) # {})
                 => pipeline_stages' = pipeline_stages ]_vars

\* the half of C28 the migration keeps: it leaves one Prospects stage per
\* fund and a second run changes nothing
MigrationIsIdempotent ==
  [][ op'.name = "startup_event"
      => /\ \A f \in FundIds : Cardinality(ProspectsOf(pipeline_stages', f)) = 1
         /\ (\A f \in FundIds : ProspectsOf(pipeline_stages, f) # {})
              => pipeline_stages' = pipeline_stages ]_vars

\* C29: merge_investors preserves checklist uniqueness. After a merge the
\* kept investor never has more auto-generated tasks for a stage than the
\* stage's template has entries: at most one batch per (investor, stage).
C29_MergeKeepsOneBatchPerStage ==
  [][ op'.name = "merge_investors" /\ op'.status = 200
      => \A s \in Range(pipeline_stages) :
           Cardinality(AutoTasksOf(user_tasks', op'.investor, s.id))
             <= Len(STAGE_AUTO_TASKS(s.name)) ]_vars

\* C30: no pipeline entry outlives its investor. After admin_delete_investor,
\* merge_investors (for the ids it deletes) or delete_investor_profile has
\* answered 200, no pipeline entry references a deleted investor.
C30_NoEntryOutlivesItsInvestor ==
  [][ /\ op'.name \in {"admin_delete_investor", "merge_investors",
                        "delete_investor_profile"}
      /\ op'.status = 200
      => \A e \in investor_pipeline' : e.investor_id \notin Range(op'.result) ]_vars

============================================================================
